---------------------------- MODULE Spec2Model ----------------------------
(***************************************************************************)
(* A model of woff-lib's WOFF2 codec (woff2Encode / woff2Decode) and of    *)
(* the byte-level codecs it is built from.  Byte arrays are sequences of   *)
(* numbers 0..255 (index 0 of the code is index 1 here).  TLC's integers   *)
(* are 32-bit signed, so an unsigned 32-bit quantity that may reach 2^31   *)
(* is kept as a record [hi, lo] of two 16-bit halves.                      *)
(***************************************************************************)
EXTENDS Integers, Sequences, FiniteSets, TLC

VARIABLES
    vPc,      \* varint codecs: "start" | "written" | "read"
    vKind,    \* "base128" | "u255"
    vValue,   \* the number handed to the writer ([hi, lo])
    vBytes,   \* WriteBuffer.getBytes() after the write
    vReader,  \* which reader read it back: "ReadBuffer" | "ByteStream" | "none"
    vResult,  \* what the reader returned: [ok, v, pos]
    origin,      \* what the run starts from: "sfnt" | "woff2" | "bytes" | "none"
    design,      \* the description the starting file was built from
    pc,          \* "sfnt" | "woff2" | "brotli" | "failed" | "idle"
    woff2,       \* the WOFF2 bytes last produced or given
    hdr,         \* what readHeader returned for woff2
    brotliCalls, \* how many times decompress was called
    sfnt,        \* the SFNT bytes last produced or given
    source,      \* where sfnt comes from: "input" | "decoded" | "none"
    prev,        \* the SFNT before the last decode: [kind, v]
    error,       \* why the run failed: "none" | "encode" | "header" | "brotli" | "reconstruct"
    woffPc,      \* WOFF 1.0: "idle" | "sfnt" | "woff" | "decoded" | "failed"
    woffSfnt,    \* the SFNT bytes given to woffEncode
    woff,        \* the WOFF bytes woffEncode returned
    woffOut,     \* what woffDecode returned: [ok, v, inflated]
    knownTagIndex, \* known-tags.ts: the tag index, <<>> until it is built
    calls,       \* concurrent woff2Decode calls: [pc, input, header, out] each
    events       \* the order in which the calls began and resumed

varsVarint == <<vPc, vKind, vValue, vBytes, vReader, vResult>>
varsFont == <<origin, design, pc, woff2, hdr, brotliCalls, sfnt, source, prev, error>>
varsWoff == <<woffPc, woffSfnt, woff, woffOut>>
\* what a step of the file conversions, and a step of the number codecs,
\* leaves alone
varsCalls == <<calls, events>>
varsNotFont == <<varsVarint, varsWoff, varsCalls>>
varsNotVarint == <<varsFont, varsWoff, varsCalls, knownTagIndex>>
vars == <<vPc, vKind, vValue, vBytes, vReader, vResult,
          origin, design, pc, woff2, hdr, brotliCalls, sfnt, source, prev, error,
          woffPc, woffSfnt, woff, woffOut, knownTagIndex, calls, events>>

(***************************************************************************)
(* Integer helpers standing for JavaScript's int32 bit operators.          *)
(***************************************************************************)
Pow2(k) == 2 ^ k

\* x >> k on an int32 (arithmetic shift: floor division)
Shr(x, k) == x \div Pow2(k)

\* x & (2^k - 1)
LowBits(x, k) == x % Pow2(k)

\* 0x80 | x, for an int32 x
Or80(x) == IF (x % 256) \div 128 = 1 THEN x ELSE x + 128

\* ToInt32 of a number in [0, 2^32) kept as [hi, lo]
ToInt32(v) == (IF v.hi >= 32768 THEN v.hi - 65536 ELSE v.hi) * 65536 + v.lo

\* value < c for a number in [0, 2^32) and a constant c <= 2^31
U32Less(v, c) == v.hi < 32768 /\ ToInt32(v) < c

U32(hi, lo) == [hi |-> hi, lo |-> lo]

\* a byte stored into a Uint8Array: the value modulo 256
ToU8(x) == x % 256

(***************************************************************************)
(* ReadBuffer (woff2/decode/buffer.ts): a bounds-checked reader; a failed  *)
(* read is the code's null.                                                *)
(***************************************************************************)
Null(pos) == [ok |-> FALSE, v |-> 0, pos |-> pos]
Got(v, pos) == [ok |-> TRUE, v |-> v, pos |-> pos]

readU8(u8, pos) ==
    IF pos + 1 > Len(u8) THEN Null(pos) ELSE Got(u8[pos + 1], pos + 1)

readU16(u8, pos) ==
    IF pos + 2 > Len(u8) THEN Null(pos)
    ELSE Got(u8[pos + 1] * 256 + u8[pos + 2], pos + 2)

\* the value read is a number in [0, 2^32), kept as [hi, lo]
readU32(u8, pos) ==
    IF pos + 4 > Len(u8) THEN Null(pos)
    ELSE Got(U32(u8[pos + 1] * 256 + u8[pos + 2], u8[pos + 3] * 256 + u8[pos + 4]),
             pos + 4)

(***************************************************************************)
(* WriteBuffer (woff2/encode/write-buffer.ts).  A buffer is [b, pos, cap]: *)
(* cap is data.byteLength, pos the write position and b the bytes stored   *)
(* below min(pos, cap).  The checked writers grow the array first; the     *)
(* unchecked writeU8Fast stores nothing once pos has reached cap (a store  *)
(* past the end of a Uint8Array is dropped) but still advances pos.        *)
(***************************************************************************)
Max(a, b) == IF a >= b THEN a ELSE b
Min(a, b) == IF a <= b THEN a ELSE b
Zeros(n) == SubSeq([i \in 1 .. n |-> 0], 1, n)

NewWriteBuffer(initialSize) == [b |-> <<>>, pos |-> 0, cap |-> initialSize]

ensureCapacity(wb, needed) ==
    IF wb.pos + needed <= wb.cap THEN wb
    ELSE [b   |-> wb.b \o Zeros(wb.pos - Len(wb.b)),
          pos |-> wb.pos,
          cap |-> Max(wb.cap * 2, wb.pos + needed)]

\* data.set(bytes, pos); pos += bytes.length, after ensureCapacity
Store(wb, bytes) ==
    LET g == ensureCapacity(wb, Len(bytes)) IN
    [b |-> g.b \o bytes, pos |-> g.pos + Len(bytes), cap |-> g.cap]

\* TLC computes a LET definition or an argument when it is first used; a long
\* run of statements would become one deeply nested evaluation.  Ready(v)
\* computes v on the spot.
Ready(v) == v = v

\* the writes of items[lo], ..., items[hi], one after another
RECURSIVE WriteAll(_, _, _, _)
WriteAll(wb, items, lo, hi) ==
    IF lo > hi THEN wb
    ELSE IF lo = hi THEN Store(wb, items[lo])
    ELSE LET mid == (lo + hi) \div 2
             first == WriteAll(wb, items, lo, mid)
         IN  CASE Ready(first) -> WriteAll(first, items, mid + 1, hi)

\* the bytes of a 16-bit and of a 32-bit big-endian store
U16Bytes(value) == <<(value \div 256) % 256, value % 256>>
U32Bytes(value) ==
    <<(value \div 16777216) % 256, (value \div 65536) % 256,
      (value \div 256) % 256, value % 256>>

writeU8(wb, value) == Store(wb, <<ToU8(value)>>)

writeU8Fast(wb, value) ==
    [b   |-> IF wb.pos < wb.cap THEN Append(wb.b, ToU8(value)) ELSE wb.b,
     pos |-> wb.pos + 1,
     cap |-> wb.cap]

writeU16(wb, value) == Store(wb, U16Bytes(value))

writeS16(wb, value) == Store(wb, U16Bytes(value))

\* value is below 2^31 wherever the model calls this
writeU32(wb, value) == Store(wb, U32Bytes(value))

writeBytes(wb, src) == Store(wb, src)

getBytes(wb) == wb.b

writeBase128(buf, value) ==
    LET x == ToInt32(value) IN
    IF U32Less(value, 128) THEN
        writeU8(buf, x)
    ELSE IF U32Less(value, 16384) THEN
        writeU8(writeU8(buf, Or80(Shr(x, 7))), LowBits(x, 7))
    ELSE IF U32Less(value, 2097152) THEN
        writeU8(writeU8(writeU8(buf,
            Or80(Shr(x, 14))),
            Or80(LowBits(Shr(x, 7), 7))),
            LowBits(x, 7))
    ELSE IF U32Less(value, 268435456) THEN
        writeU8(writeU8(writeU8(writeU8(buf,
            Or80(Shr(x, 21))),
            Or80(LowBits(Shr(x, 14), 7))),
            Or80(LowBits(Shr(x, 7), 7))),
            LowBits(x, 7))
    ELSE
        writeU8(writeU8(writeU8(writeU8(writeU8(buf,
            Or80(Shr(x, 28))),
            Or80(LowBits(Shr(x, 21), 7))),
            Or80(LowBits(Shr(x, 14), 7))),
            Or80(LowBits(Shr(x, 7), 7))),
            LowBits(x, 7))

\* a slip in the second range: 762 taken for 761
write255UShortOffByOne(buf, value) ==
    IF value < 253 THEN writeU8(buf, value)
    ELSE IF value < 506 THEN writeU8(writeU8(buf, 255), value - 253)
    ELSE IF value < 763 THEN writeU8(writeU8(buf, 254), value - 506)
    ELSE writeU16(writeU8(buf, 253), value)

write255UShort(buf, value) ==
    IF value < 253 THEN writeU8(buf, value)
    ELSE IF value < 506 THEN writeU8(writeU8(buf, 255), value - 253)
    ELSE IF value < 762 THEN writeU8(writeU8(buf, 254), value - 506)
    ELSE writeU16(writeU8(buf, 253), value)

(***************************************************************************)
(* shared/variable-length.ts                                               *)
(***************************************************************************)
read255UShort(u8, pos) ==
    LET code == readU8(u8, pos) IN
    IF ~code.ok THEN Null(code.pos)
    ELSE IF code.v = 253 THEN readU16(u8, code.pos)
    ELSE IF code.v = 255 THEN
        LET next == readU8(u8, code.pos) IN
        IF ~next.ok THEN Null(next.pos) ELSE Got(253 + next.v, next.pos)
    ELSE IF code.v = 254 THEN
        LET next == readU8(u8, code.pos) IN
        IF ~next.ok THEN Null(next.pos) ELSE Got(506 + next.v, next.pos)
    ELSE code

\* (result << 7) | (code & 0x7f) as an int32, for 0 <= result < 2^25
ShiftIn7(result, code) ==
    IF result >= 16777216
    THEN (result - 33554432) * 128 + LowBits(code, 7)
    ELSE result * 128 + LowBits(code, 7)

RECURSIVE readBase128Loop(_, _, _, _)
readBase128Loop(u8, pos, i, result) ==
    IF i >= 5 THEN Null(pos)
    ELSE
        LET code == readU8(u8, pos) IN
        IF ~code.ok THEN Null(code.pos)
        ELSE IF i = 0 /\ code.v = 128 THEN Null(code.pos)
        ELSE IF result >= 33554432 THEN Null(code.pos)
        ELSE
            LET next == ShiftIn7(result, code.v) IN
            IF code.v < 128 THEN Got(next, code.pos)
            ELSE readBase128Loop(u8, code.pos, i + 1, next)

readBase128(u8, pos) == readBase128Loop(u8, pos, 0, 0)

(***************************************************************************)
(* Bit operators on non-negative numbers, and typed-array conversions.     *)
(***************************************************************************)
RECURSIVE BitAnd(_, _)
BitAnd(a, b) ==
    IF a = 0 \/ b = 0 THEN 0
    ELSE (a % 2) * (b % 2) + 2 * BitAnd(a \div 2, b \div 2)

RECURSIVE BitOr(_, _)
BitOr(a, b) ==
    IF a = 0 THEN b
    ELSE IF b = 0 THEN a
    ELSE Max(a % 2, b % 2) + 2 * BitOr(a \div 2, b \div 2)

\* (flag & mask) !== 0 for a one-bit mask
HasBit(flag, mask) == (flag \div mask) % 2 = 1

\* a number stored into an Int16Array / read as int16
ToInt16(x) == ((x + 32768) % 65536) - 32768

\* a number stored into a Uint16Array
ToU16(x) == x % 65536

\* Uint8Array.subarray(begin, end), clamped to the array
SubArray(data, begin, end) ==
    LET b == Min(begin, Len(data))
        e == Min(Max(end, b), Len(data))
    IN  SubSeq(data, b + 1, e)

\* DataView.getUint16 / getInt16 / getUint32 throw a RangeError out of bounds
InView(data, pos, n) == pos >= 0 /\ pos + n <= Len(data)
getUint16(data, pos) == data[pos + 1] * 256 + data[pos + 2]
getInt16(data, pos) == ToInt16(getUint16(data, pos))
\* values below 2^31 wherever the model calls this
getUint32(data, pos) ==
    data[pos + 1] * 16777216 + data[pos + 2] * 65536
        + data[pos + 3] * 256 + data[pos + 4]

\* DataView.setUint32 of a number below 2^31 (or an int32): its four bytes
U32BE(v) == <<(v \div 16777216) % 256, (v \div 65536) % 256, (v \div 256) % 256, v % 256>>

\* bitmap[glyphId >> 3] |= 0x80 >> (glyphId & 7)
SetBit(bitmap, glyphId) ==
    [bitmap EXCEPT ![(glyphId \div 8) + 1] = BitOr(@, 128 \div Pow2(glyphId % 8))]

\* test of the bbox bitmap with the bits of a byte counted from the low end
TestBitLow(bitmap, glyphId) ==
    /\ (glyphId \div 8) + 1 <= Len(bitmap)
    /\ HasBit(bitmap[(glyphId \div 8) + 1], Pow2(glyphId % 8))

\* (bitmap[glyphId >> 3] & (0x80 >> (glyphId & 7))) !== 0; a missing byte is 0
TestBit(bitmap, glyphId) ==
    /\ (glyphId \div 8) + 1 <= Len(bitmap)
    /\ HasBit(bitmap[(glyphId \div 8) + 1], 128 \div Pow2(glyphId % 8))

(***************************************************************************)
(* ByteStream (woff2/decode/decode.ts): the lightweight reader of the hot  *)
(* paths, a position and an end over the shared data.  A read past         *)
(* stream.end throws 'Stream overflow': ok = FALSE.  The end of a stream   *)
(* is not checked against the data: a byte past the data is undefined,     *)
(* which the 16-bit readers turn into 0 (undefined << 8 is 0) and which    *)
(* bsReadU8 returns as it is (Undef: ok = FALSE, v = -1).                  *)
(***************************************************************************)
Undef(pos) == [ok |-> FALSE, v |-> -1, pos |-> pos]

\* data[idx] in an int32 expression
ByteOr0(data, idx) == IF idx < Len(data) THEN data[idx + 1] ELSE 0

bsReadU8(data, pos, end) ==
    IF pos >= end THEN Null(pos)
    ELSE IF pos >= Len(data) THEN Undef(pos)
    ELSE Got(data[pos + 1], pos + 1)

bsReadU16(data, pos, end) ==
    IF pos + 2 > end THEN Null(pos)
    ELSE Got(ByteOr0(data, pos) * 256 + ByteOr0(data, pos + 1), pos + 2)

bsReadS16(data, pos, end) ==
    IF pos + 2 > end THEN Null(pos)
    ELSE Got(ToInt16(ByteOr0(data, pos) * 256 + ByteOr0(data, pos + 1)), pos + 2)

\* values below 2^31 wherever the model calls this
fsReadU32(data, pos, end) ==
    IF pos + 4 > end THEN Null(pos)
    ELSE Got(ByteOr0(data, pos) * 16777216 + ByteOr0(data, pos + 1) * 65536
                + ByteOr0(data, pos + 2) * 256 + ByteOr0(data, pos + 3), pos + 4)

bsSkip(pos, end, n) ==
    IF pos + n > end \/ n < 0 THEN Null(pos) ELSE Got(0, pos + n)

\* v is the subarray read (clamped to the data)
fsReadBytes(data, pos, end, n) ==
    IF pos + n > end \/ n < 0 THEN [ok |-> FALSE, v |-> <<>>, pos |-> pos]
    ELSE [ok |-> TRUE, v |-> SubArray(data, pos, pos + n), pos |-> pos + n]

bsRead255UShort(data, pos, end) ==
    LET code == bsReadU8(data, pos, end) IN
    IF ~code.ok THEN code
    ELSE IF code.v = 253 THEN bsReadU16(data, code.pos, end)
    ELSE IF code.v = 255 THEN
        LET next == bsReadU8(data, code.pos, end) IN
        IF ~next.ok THEN next ELSE Got(253 + next.v, next.pos)
    ELSE IF code.v = 254 THEN
        LET next == bsReadU8(data, code.pos, end) IN
        IF ~next.ok THEN next ELSE Got(253 * 2 + next.v, next.pos)
    ELSE code

(***************************************************************************)
(* woff2/encode/sfnt.ts: the glyph parser of the encoder.                  *)
(***************************************************************************)
FLAG_ON_CURVE == 1
FLAG_X_SHORT == 2
FLAG_Y_SHORT == 4
FLAG_REPEAT == 8
FLAG_X_SAME_OR_POSITIVE == 16
FLAG_Y_SAME_OR_POSITIVE == 32
FLAG_OVERLAP_SIMPLE == 64

COMP_ARG_1_AND_2_ARE_WORDS == 1
COMP_WE_HAVE_A_SCALE == 8
COMP_MORE_COMPONENTS == 32
COMP_WE_HAVE_AN_X_AND_Y_SCALE == 64
COMP_WE_HAVE_A_TWO_BY_TWO == 128
COMP_WE_HAVE_INSTRUCTIONS == 256

GlyphThrow == [ok |-> FALSE, kind |-> "throw"]
GlyphNull == [ok |-> TRUE, kind |-> "null"]

\* the loop with a repeat count taken as the length of the whole run
RECURSIVE ParseFlagsRun(_, _, _, _)
ParseFlagsRun(data, pos, flags, numPoints) ==
    IF Len(flags) >= numPoints THEN [flags |-> flags, pos |-> pos]
    ELSE
        LET flag == IF pos < Len(data) THEN data[pos + 1] ELSE 0
            f1 == Append(flags, flag)
        IN  IF HasBit(flag, FLAG_REPEAT) THEN
                LET repeatCount == IF pos + 1 < Len(data) THEN data[pos + 2] ELSE 0
                    n == Min(Max(repeatCount - 1, 0), numPoints - Len(f1))
                IN  ParseFlagsRun(data, pos + 2, f1 \o [j \in 1 .. n |-> flag], numPoints)
            ELSE ParseFlagsRun(data, pos + 1, f1, numPoints)

\* the run-length decoding loop of the flags; data[pos] past the end is
\* undefined, which is stored as 0 and has no repeat bit
RECURSIVE ParseFlags(_, _, _, _)
ParseFlags(data, pos, flags, numPoints) ==
    IF Len(flags) >= numPoints THEN [flags |-> flags, pos |-> pos]
    ELSE
        LET flag == IF pos < Len(data) THEN data[pos + 1] ELSE 0
            f1 == Append(flags, flag)
        IN  IF HasBit(flag, FLAG_REPEAT) THEN
                LET repeatCount == IF pos + 1 < Len(data) THEN data[pos + 2] ELSE 0
                    n == Min(repeatCount, numPoints - Len(f1))
                IN  ParseFlags(data, pos + 2, f1 \o [j \in 1 .. n |-> flag], numPoints)
            ELSE ParseFlags(data, pos + 1, f1, numPoints)

\* one coordinate loop; short / same are the X or the Y flag bits.  nan: the
\* running sum became NaN (a short delta read past the end), stored as 0
RECURSIVE ParseCoords(_, _, _, _, _, _, _, _, _)
ParseCoords(data, pos, flags, i, x, nan, acc, short, same) ==
    IF i > Len(flags) THEN [ok |-> TRUE, pos |-> pos, coords |-> acc]
    ELSE
        LET flag == flags[i] IN
        IF HasBit(flag, short) THEN
            IF pos < Len(data) THEN
                LET dx == data[pos + 1]
                    x1 == IF HasBit(flag, same) THEN x + dx ELSE x - dx
                IN  ParseCoords(data, pos + 1, flags, i + 1, x1, nan,
                        Append(acc, IF nan THEN 0 ELSE ToInt16(x1)), short, same)
            ELSE ParseCoords(data, pos + 1, flags, i + 1, x, TRUE,
                        Append(acc, 0), short, same)
        ELSE IF ~HasBit(flag, same) THEN
            IF ~InView(data, pos, 2) THEN [ok |-> FALSE, pos |-> pos, coords |-> acc]
            ELSE
                LET x1 == x + getInt16(data, pos) IN
                ParseCoords(data, pos + 2, flags, i + 1, x1, nan,
                    Append(acc, IF nan THEN 0 ELSE ToInt16(x1)), short, same)
        ELSE ParseCoords(data, pos, flags, i + 1, x, nan,
                    Append(acc, IF nan THEN 0 ELSE ToInt16(x)), short, same)

parseSimpleGlyph(data, start, nContours, xMin, yMin, xMax, yMax) ==
    LET pos1 == start + 10 + 2 * nContours IN
    IF ~InView(data, start + 10, 2 * nContours + 2) THEN GlyphThrow
    ELSE
        LET endPtsOfContours ==
                [i \in 1 .. nContours |-> getUint16(data, start + 10 + 2 * (i - 1))]
            numPoints == IF nContours > 0 THEN endPtsOfContours[nContours] + 1 ELSE 0
            instructionLength == getUint16(data, pos1)
            pos2 == pos1 + 2
            instructions == SubArray(data, pos2, pos2 + instructionLength)
            fl == ParseFlags(data, pos2 + instructionLength, <<>>, numPoints)
            xs == ParseCoords(data, fl.pos, fl.flags, 1, 0, FALSE, <<>>,
                              FLAG_X_SHORT, FLAG_X_SAME_OR_POSITIVE)
            ys == ParseCoords(data, xs.pos, fl.flags, 1, 0, FALSE, <<>>,
                              FLAG_Y_SHORT, FLAG_Y_SAME_OR_POSITIVE)
        IN  IF ~xs.ok THEN GlyphThrow
            ELSE IF ~ys.ok THEN GlyphThrow
            ELSE [ok |-> TRUE, kind |-> "simple", nContours |-> nContours,
                  xMin |-> xMin, yMin |-> yMin, xMax |-> xMax, yMax |-> yMax,
                  endPtsOfContours |-> endPtsOfContours,
                  instructions |-> instructions,
                  xCoordinates |-> xs.coords, yCoordinates |-> ys.coords,
                  flags |-> fl.flags,
                  hasOverlapFlag |-> numPoints > 0
                                     /\ HasBit(fl.flags[1], FLAG_OVERLAP_SIMPLE)]

\* bytes of one component after its flags word: glyph index, arguments, matrix
ComponentArgSize(flags) ==
    2 + (IF HasBit(flags, COMP_ARG_1_AND_2_ARE_WORDS) THEN 4 ELSE 2)
      + (IF HasBit(flags, COMP_WE_HAVE_A_SCALE) THEN 2
         ELSE IF HasBit(flags, COMP_WE_HAVE_AN_X_AND_Y_SCALE) THEN 4
         ELSE IF HasBit(flags, COMP_WE_HAVE_A_TWO_BY_TWO) THEN 8 ELSE 0)

\* the component scan: [ok, pos, haveInstructions]
RECURSIVE ScanComposite(_, _, _)
ScanComposite(data, pos, haveInstructions) ==
    IF ~InView(data, pos, 2) THEN [ok |-> FALSE, pos |-> pos, hi |-> haveInstructions]
    ELSE
        LET flags == getUint16(data, pos)
            hi == haveInstructions \/ HasBit(flags, COMP_WE_HAVE_INSTRUCTIONS)
            next == pos + 2 + ComponentArgSize(flags)
        IN  IF HasBit(flags, COMP_MORE_COMPONENTS)
            THEN ScanComposite(data, next, hi)
            ELSE [ok |-> TRUE, pos |-> next, hi |-> hi]

parseCompositeGlyph(data, start, xMin, yMin, xMax, yMax) ==
    LET sc == ScanComposite(data, start + 10, FALSE) IN
    IF ~sc.ok THEN GlyphThrow
    ELSE IF sc.hi /\ ~InView(data, sc.pos, 2) THEN GlyphThrow
    ELSE [ok |-> TRUE, kind |-> "composite",
          xMin |-> xMin, yMin |-> yMin, xMax |-> xMax, yMax |-> yMax,
          compositeData |-> SubArray(data, start + 10, sc.pos),
          haveInstructions |-> sc.hi,
          instructions |->
              IF sc.hi
              THEN SubArray(data, sc.pos + 2, sc.pos + 2 + getUint16(data, sc.pos))
              ELSE <<>>]

parseGlyph(data, glyfOffset, glyphOffset, glyphLength) ==
    IF glyphLength = 0 THEN GlyphNull
    ELSE
        LET start == glyfOffset + glyphOffset IN
        IF ~InView(data, start, 10) THEN GlyphThrow
        ELSE
            LET nContours == getInt16(data, start)
                xMin == getInt16(data, start + 2)
                yMin == getInt16(data, start + 4)
                xMax == getInt16(data, start + 6)
                yMax == getInt16(data, start + 8)
            IN  IF nContours >= 0
                THEN parseSimpleGlyph(data, start, nContours, xMin, yMin, xMax, yMax)
                ELSE IF nContours = -1
                THEN parseCompositeGlyph(data, start, xMin, yMin, xMax, yMax)
                ELSE GlyphThrow

(***************************************************************************)
(* woff2/encode/transform-glyf.ts: the forward glyf/loca transform.        *)
(***************************************************************************)
Abs(x) == IF x < 0 THEN 0 - x ELSE x

\* writeTriplet on the pair [flag, glyph] of stream buffers
writeTriplet(fs, gs, onCurve, dx, dy) ==
    LET absDx == Abs(dx)
        absDy == Abs(dy)
        onCurveBit == IF onCurve THEN 0 ELSE 128
        xSign == IF dx >= 0 THEN 1 ELSE 0
        ySign == IF dy >= 0 THEN 1 ELSE 0
        xySign == BitOr(xSign, ySign * 2)
    IN
    IF dx = 0 /\ absDy < 1280 THEN
        [flag  |-> writeU8Fast(fs, BitOr(BitOr(onCurveBit,
                        BitAnd(Shr(absDy, 7), 14)), ySign)),
         glyph |-> writeU8Fast(gs, BitAnd(absDy, 255))]
    ELSE IF dy = 0 /\ absDx < 1280 THEN
        [flag  |-> writeU8Fast(fs, BitOr(BitOr(BitOr(onCurveBit, 10),
                        BitAnd(Shr(absDx, 7), 14)), xSign)),
         glyph |-> writeU8Fast(gs, BitAnd(absDx, 255))]
    ELSE IF absDx > 0 /\ absDx < 65 /\ absDy > 0 /\ absDy < 65 THEN
        [flag  |-> writeU8Fast(fs, BitOr(BitOr(BitOr(BitOr(onCurveBit, 20),
                        BitAnd(absDx - 1, 48)),
                        Shr(BitAnd(absDy - 1, 48), 2)), xySign)),
         glyph |-> writeU8Fast(gs, BitOr(BitAnd(absDx - 1, 15) * 16,
                                         BitAnd(absDy - 1, 15)))]
    ELSE IF absDx > 0 /\ absDx < 769 /\ absDy > 0 /\ absDy < 769 THEN
        [flag  |-> writeU8Fast(fs, BitOr(BitOr(BitOr(BitOr(onCurveBit, 84),
                        Shr(absDx - 1, 8) * 12),
                        BitAnd(Shr(absDy - 1, 6), 12)), xySign)),
         glyph |-> writeU8Fast(writeU8Fast(gs, BitAnd(absDx - 1, 255)),
                               BitAnd(absDy - 1, 255))]
    ELSE IF absDx < 4096 /\ absDy < 4096 THEN
        [flag  |-> writeU8Fast(fs, BitOr(BitOr(onCurveBit, 120), xySign)),
         glyph |-> writeU8Fast(writeU8Fast(writeU8Fast(gs,
                        Shr(absDx, 4)),
                        BitOr(BitAnd(absDx, 15) * 16, Shr(absDy, 8))),
                        BitAnd(absDy, 255))]
    ELSE
        [flag  |-> writeU8Fast(fs, BitOr(BitOr(onCurveBit, 124), xySign)),
         glyph |-> writeU8Fast(writeU8Fast(writeU8Fast(writeU8Fast(gs,
                        Shr(absDx, 8)),
                        BitAnd(absDx, 255)),
                        Shr(absDy, 8)),
                        BitAnd(absDy, 255))]

SeqMin(q) == CHOOSE m \in {q[i] : i \in 1 .. Len(q)} : \A i \in 1 .. Len(q) : m <= q[i]
SeqMax(q) == CHOOSE m \in {q[i] : i \in 1 .. Len(q)} : \A i \in 1 .. Len(q) : m >= q[i]

computeBbox(xCoordinates, yCoordinates) ==
    IF Len(xCoordinates) = 0
    THEN [xMin |-> 0, yMin |-> 0, xMax |-> 0, yMax |-> 0]
    ELSE [xMin |-> SeqMin(xCoordinates), yMin |-> SeqMin(yCoordinates),
          xMax |-> SeqMax(xCoordinates), yMax |-> SeqMax(yCoordinates)]

\* the four writeS16 of an explicit bounding box
WriteBbox(wb, glyph) ==
    writeS16(writeS16(writeS16(writeS16(wb,
        glyph.xMin), glyph.yMin), glyph.xMax), glyph.yMax)

\* the nPoints loop of encodeSimpleGlyph
RECURSIVE WriteNPoints(_, _, _, _)
WriteNPoints(wb, endPts, i, prevEnd) ==
    IF i > Len(endPts) THEN wb
    ELSE WriteNPoints(write255UShort(wb, endPts[i] - prevEnd), endPts, i + 1, endPts[i])

\* the triplet loop of encodeSimpleGlyph on [flag, glyph]
RECURSIVE WriteTriplets(_, _, _, _, _, _)
WriteTriplets(fg, glyph, i, totalPoints, lastX, lastY) ==
    IF i > totalPoints THEN fg
    ELSE
        LET dx == glyph.xCoordinates[i] - lastX
            dy == glyph.yCoordinates[i] - lastY
            isOnCurve == HasBit(glyph.flags[i], 1)
        IN  WriteTriplets(writeTriplet(fg.flag, fg.glyph, isOnCurve, dx, dy),
                glyph, i + 1, totalPoints,
                glyph.xCoordinates[i], glyph.yCoordinates[i])

\* st: the seven stream buffers, the two bitmaps, xMins and hasAnyOverlap
encodeSimpleGlyph(glyph, glyphId, st) ==
    LET computedBbox == computeBbox(glyph.xCoordinates, glyph.yCoordinates)
        bboxMatches ==
            /\ computedBbox.xMin = glyph.xMin /\ computedBbox.yMin = glyph.yMin
            /\ computedBbox.xMax = glyph.xMax /\ computedBbox.yMax = glyph.yMax
        \* endPtsOfContours[nContours - 1] + 1 is NaN without contours: no loop
        totalPoints == IF glyph.nContours > 0
                       THEN glyph.endPtsOfContours[glyph.nContours] + 1 ELSE 0
        fg == WriteTriplets([flag |-> st.flag, glyph |-> st.glyph],
                            glyph, 1, totalPoints, 0, 0)
    IN  [st EXCEPT
            !.nContour = writeS16(@, glyph.nContours),
            !.xMins = [@ EXCEPT ![glyphId + 1] = ToInt16(glyph.xMin)],
            !.bboxBitmap = IF bboxMatches THEN @ ELSE SetBit(@, glyphId),
            !.bbox = IF bboxMatches THEN @ ELSE WriteBbox(@, glyph),
            !.overlapBitmap = IF glyph.hasOverlapFlag THEN SetBit(@, glyphId) ELSE @,
            !.hasAnyOverlap = @ \/ glyph.hasOverlapFlag,
            !.nPoints = WriteNPoints(@, glyph.endPtsOfContours, 1, -1),
            !.flag = fg.flag,
            !.glyph = write255UShort(fg.glyph, Len(glyph.instructions)),
            !.instruction = writeBytes(@, glyph.instructions)]

encodeCompositeGlyph(glyph, glyphId, st) ==
    [st EXCEPT
        !.nContour = writeS16(@, -1),
        !.xMins = [@ EXCEPT ![glyphId + 1] = ToInt16(glyph.xMin)],
        !.bboxBitmap = SetBit(@, glyphId),
        !.bbox = WriteBbox(@, glyph),
        !.composite = writeBytes(@, glyph.compositeData),
        !.glyph = IF glyph.haveInstructions
                  THEN write255UShort(@, Len(glyph.instructions)) ELSE @,
        !.instruction = IF glyph.haveInstructions
                        THEN writeBytes(@, glyph.instructions) ELSE @]

\* the glyph loop of transformGlyf: [ok, st]
RECURSIVE TransformGlyphs(_, _, _, _, _, _)
TransformGlyphs(data, glyfOffset, glyphOffsets, glyphId, numGlyphs, st) ==
    IF glyphId >= numGlyphs THEN [ok |-> TRUE, st |-> st]
    ELSE
        LET offset == glyphOffsets[glyphId + 1]
            length == glyphOffsets[glyphId + 2] - offset
            \* the next turn of the loop, on the streams next
            Continue(next) ==
                CASE Ready(next) ->
                    TransformGlyphs(data, glyfOffset, glyphOffsets, glyphId + 1,
                                    numGlyphs, next)
            Encoded(glyph) ==
                IF ~glyph.ok THEN [ok |-> FALSE, st |-> st]
                ELSE Continue(IF glyph.kind = "null"
                              THEN [st EXCEPT !.nContour = writeS16(@, 0)]
                              ELSE IF glyph.kind = "simple"
                              THEN encodeSimpleGlyph(glyph, glyphId, st)
                              ELSE encodeCompositeGlyph(glyph, glyphId, st))
        IN  Encoded(parseGlyph(data, glyfOffset, offset, length))

\* the stream buffers, bitmaps and xMins transformGlyf starts its loop with
NewStreams(numGlyphs) ==
    [nContour    |-> NewWriteBuffer(numGlyphs * 2),
     nPoints     |-> NewWriteBuffer(numGlyphs * 4),
     flag        |-> NewWriteBuffer(numGlyphs * 100),
     glyph       |-> NewWriteBuffer(numGlyphs * 200),
     composite   |-> NewWriteBuffer(numGlyphs * 20),
     bbox        |-> NewWriteBuffer(numGlyphs * 8),
     instruction |-> NewWriteBuffer(numGlyphs * 50),
     bboxBitmap  |-> Zeros(((numGlyphs + 31) \div 32) * 4),
     overlapBitmap |-> Zeros((numGlyphs + 7) \div 8),
     xMins       |-> Zeros(numGlyphs),
     hasAnyOverlap |-> FALSE]

\* transformGlyf(font, glyphInfo): [ok, data, origLength, xMins]
transformGlyf(data, glyfOffset, origLength, numGlyphs, indexFormat, glyphOffsets) ==
    LET bboxBitmapLength == ((numGlyphs + 31) \div 32) * 4
        st0 == NewStreams(numGlyphs)
        \* the writes into output: the header, then the streams
        Items(st) ==
            <<U16Bytes(0),
              U16Bytes(IF st.hasAnyOverlap THEN 1 ELSE 0),
              U16Bytes(numGlyphs),
              U16Bytes(indexFormat),
              U32Bytes(st.nContour.pos),
              U32Bytes(st.nPoints.pos),
              U32Bytes(st.flag.pos),
              U32Bytes(st.glyph.pos),
              U32Bytes(st.composite.pos),
              U32Bytes(bboxBitmapLength + st.bbox.pos),
              U32Bytes(st.instruction.pos),
              getBytes(st.nContour), getBytes(st.nPoints), getBytes(st.flag),
              getBytes(st.glyph), getBytes(st.composite), st.bboxBitmap,
              getBytes(st.bbox), getBytes(st.instruction)>>
            \o (IF st.hasAnyOverlap THEN <<st.overlapBitmap>> ELSE <<>>)
        WriteItems(output, items) == WriteAll(output, items, 1, Len(items))
        Output(st) ==
            WriteItems(NewWriteBuffer(44 + st.nContour.pos + st.nPoints.pos + st.flag.pos
                        + st.glyph.pos + st.composite.pos + bboxBitmapLength
                        + st.bbox.pos + st.instruction.pos
                        + (IF st.hasAnyOverlap THEN Len(st.overlapBitmap) ELSE 0)),
                    Items(st))
        Return(r) ==
            IF ~r.ok THEN [ok |-> FALSE, data |-> <<>>, origLength |-> origLength]
            ELSE [ok |-> TRUE, data |-> getBytes(Output(r.st)), origLength |-> origLength]
    IN  Return(TransformGlyphs(data, glyfOffset, glyphOffsets, 0, numGlyphs, st0))

(***************************************************************************)
(* woff2/decode/decode.ts: the inverse glyf/loca transform.                *)
(***************************************************************************)
\* the deltas of one triplet: [ok, dx, dy, pos].  A coordinate byte past the
\* data (not past the stream) is undefined; the model stops there
DecodeTriplet(flagLow, data, pos, end) ==
    LET n == IF flagLow < 84 THEN 1
             ELSE IF flagLow < 120 THEN 2
             ELSE IF flagLow < 124 THEN 3 ELSE 4
        fail == [ok |-> FALSE, dx |-> 0, dy |-> 0, pos |-> pos]
        SgnX(v) == IF flagLow % 2 = 0 THEN 0 - v ELSE v
        SgnY(v) == IF (flagLow \div 2) % 2 = 0 THEN 0 - v ELSE v
    IN
    IF pos + n > end THEN fail
    ELSE IF pos + n > Len(data) THEN fail
    ELSE
        LET b0 == data[pos + 1] IN
        IF flagLow < 10 THEN
            [ok |-> TRUE, dx |-> 0, dy |-> SgnX(BitAnd(flagLow, 14) * 128 + b0),
             pos |-> pos + 1]
        ELSE IF flagLow < 20 THEN
            [ok |-> TRUE, dx |-> SgnX(BitAnd(flagLow - 10, 14) * 128 + b0), dy |-> 0,
             pos |-> pos + 1]
        ELSE IF flagLow < 84 THEN
            LET c0 == flagLow - 20 IN
            [ok |-> TRUE,
             dx |-> SgnX(1 + BitAnd(c0, 48) + Shr(b0, 4)),
             dy |-> SgnY(1 + BitAnd(c0, 12) * 4 + BitAnd(b0, 15)),
             pos |-> pos + 1]
        ELSE IF flagLow < 120 THEN
            LET idx == flagLow - 84 IN
            [ok |-> TRUE,
             dx |-> SgnX(1 + (idx \div 12) * 256 + b0),
             dy |-> SgnY(1 + Shr(idx % 12, 2) * 256 + data[pos + 2]),
             pos |-> pos + 2]
        ELSE IF flagLow < 124 THEN
            [ok |-> TRUE,
             dx |-> SgnX(b0 * 16 + Shr(data[pos + 2], 4)),
             dy |-> SgnY(BitAnd(data[pos + 2], 15) * 256 + data[pos + 3]),
             pos |-> pos + 3]
        ELSE
            [ok |-> TRUE,
             dx |-> SgnX(b0 * 256 + data[pos + 2]),
             dy |-> SgnY(data[pos + 3] * 256 + data[pos + 4]),
             pos |-> pos + 4]

\* the TrueType bytes of one delta and the flag bits that go with them
CoordBytes(d) ==
    IF d = 0 THEN <<>>
    ELSE IF d >= -255 /\ d <= 255 THEN <<Abs(d)>>
    ELSE <<Shr(d, 8) % 256, d % 256>>

CoordFlag(d, short, same) ==
    IF d = 0 THEN same
    ELSE IF d >= -255 /\ d <= 255 THEN (IF d > 0 THEN short + same ELSE short)
    ELSE 0

\* the point loop of encodeTripletsToScratch; a is the record of its locals
RECURSIVE TripletLoop(_, _, _, _, _, _, _)
TripletLoop(data, flagEnd, glyphEnd, nPoints, hasOverlapBit, i, a) ==
    IF i >= nPoints THEN a
    ELSE IF a.flagPos >= flagEnd THEN [a EXCEPT !.ok = FALSE]
    ELSE IF a.flagPos >= Len(data) THEN [a EXCEPT !.ok = FALSE]
    ELSE
        LET flag == data[a.flagPos + 1]
            onCurve == ~HasBit(flag, 128)
            \* the point stored, its deltas t decoded and its flag byte outFlag
            \* formed
            Point(t, outFlag) ==
                LET x == a.x + t.dx
                    y == a.y + t.dy
                    repeat == outFlag = a.lastFlag /\ a.repeatCount < 255
                IN  [ok |-> TRUE, flagPos |-> a.flagPos + 1, glyphPos |-> t.pos,
                     flagsOut |->
                        IF repeat
                        THEN [a.flagsOut EXCEPT ![Len(a.flagsOut)] = BitOr(@, FLAG_REPEAT)]
                        ELSE (IF a.repeatCount > 0 THEN Append(a.flagsOut, a.repeatCount)
                              ELSE a.flagsOut) \o <<outFlag>>,
                     xOut |-> a.xOut \o CoordBytes(t.dx),
                     yOut |-> a.yOut \o CoordBytes(t.dy),
                     x |-> x, y |-> y,
                     xMin |-> IF i = 0 THEN x ELSE Min(a.xMin, x),
                     xMax |-> IF i = 0 THEN x ELSE Max(a.xMax, x),
                     yMin |-> IF i = 0 THEN y ELSE Min(a.yMin, y),
                     yMax |-> IF i = 0 THEN y ELSE Max(a.yMax, y),
                     lastFlag |-> IF repeat THEN a.lastFlag ELSE outFlag,
                     repeatCount |-> IF repeat THEN a.repeatCount + 1 ELSE 0]
            Decoded(t) ==
                IF ~t.ok THEN [a EXCEPT !.ok = FALSE]
                ELSE TripletLoop(data, flagEnd, glyphEnd, nPoints, hasOverlapBit, i + 1,
                        Point(t,
                              (IF onCurve THEN FLAG_ON_CURVE ELSE 0)
                              + (IF hasOverlapBit /\ i = 0 THEN FLAG_OVERLAP_SIMPLE ELSE 0)
                              + CoordFlag(t.dx, FLAG_X_SHORT, FLAG_X_SAME_OR_POSITIVE)
                              + CoordFlag(t.dy, FLAG_Y_SHORT, FLAG_Y_SAME_OR_POSITIVE)))
        IN  Decoded(DecodeTriplet(flag % 128, data, a.glyphPos, glyphEnd))

\* [ok, flagPos, glyphPos, flagsOut, xOut, yOut, xMin, yMin, xMax, yMax]
encodeTripletsToScratch(data, flagPos, flagEnd, glyphPos, glyphEnd, nPoints, hasOverlapBit) ==
    LET a0 == [ok |-> TRUE, flagPos |-> flagPos, glyphPos |-> glyphPos,
               flagsOut |-> <<>>, xOut |-> <<>>, yOut |-> <<>>, x |-> 0, y |-> 0,
               xMin |-> 0, xMax |-> 0, yMin |-> 0, yMax |-> 0,
               lastFlag |-> -1, repeatCount |-> 0]
        \* the pending repeat count flushed after the loop
        Flushed(a) ==
            IF a.repeatCount > 0
            THEN [a EXCEPT !.flagsOut = Append(@, a.repeatCount)]
            ELSE a
    IN  IF nPoints = 0 THEN a0
        ELSE Flushed(TripletLoop(data, flagEnd, glyphEnd, nPoints, hasOverlapBit, 0, a0))

\* writeInt16BE / writeUint16BE: two index stores, dropped past the array
Int16BE(value) == <<Shr(value, 8) % 256, value % 256>>

readInt16BE(data, offset) ==
    ToInt16(ByteOr0(data, offset) * 256 + ByteOr0(data, offset + 1))

\* the array after bytes were stored from offset on; a store past the end of
\* a typed array is dropped
StoreAt(out, offset, bytes) ==
    LET m == Min(Len(bytes), Max(Len(out) - offset, 0)) IN
    IF m = 0 THEN out
    ELSE SubSeq(out, 1, offset) \o SubSeq(bytes, 1, m)
         \o SubSeq(out, offset + m + 1, Len(out))

\* TypedArray.set(bytes, offset) on o = [ok, out]: a RangeError past the array
SetAt(o, offset, bytes) ==
    IF ~o.ok THEN o
    ELSE IF offset < 0 \/ offset + Len(bytes) > Len(o.out) THEN [o EXCEPT !.ok = FALSE]
    ELSE [o EXCEPT !.out = StoreAt(@, offset, bytes)]

\* the inner ensureCapacity of reconstructGlyf
GlyfEnsureCapacity(out, glyfOffset, needed) ==
    IF glyfOffset + needed > Len(out)
    THEN out \o Zeros((glyfOffset + needed) * 2 - Len(out))
    ELSE out

pad4(n) == ((n + 3) \div 4) * 4

\* the scan with haveInstructions taken from the last record read only
RECURSIVE readCompositeLast(_, _, _, _)
readCompositeLast(data, pos, end, haveInstructions) ==
    LET flags == bsReadU16(data, pos, end) IN
    IF ~flags.ok THEN [ok |-> FALSE, pos |-> pos, hi |-> haveInstructions]
    ELSE
        LET hi == HasBit(flags.v, COMP_WE_HAVE_INSTRUCTIONS)
            sk == bsSkip(flags.pos, end, ComponentArgSize(flags.v))
        IN  IF ~sk.ok THEN [ok |-> FALSE, pos |-> pos, hi |-> hi]
            ELSE IF HasBit(flags.v, COMP_MORE_COMPONENTS)
            THEN readCompositeLast(data, sk.pos, end, hi)
            ELSE [ok |-> TRUE, pos |-> sk.pos, hi |-> hi]

\* readCompositeGlyph: [ok, pos, hi]
RECURSIVE readCompositeLoop(_, _, _, _)
readCompositeLoop(data, pos, end, haveInstructions) ==
    LET flags == bsReadU16(data, pos, end) IN
    IF ~flags.ok THEN [ok |-> FALSE, pos |-> pos, hi |-> haveInstructions]
    ELSE
        LET hi == haveInstructions \/ HasBit(flags.v, COMP_WE_HAVE_INSTRUCTIONS)
            sk == bsSkip(flags.pos, end, ComponentArgSize(flags.v))
        IN  IF ~sk.ok THEN [ok |-> FALSE, pos |-> pos, hi |-> hi]
            ELSE IF HasBit(flags.v, COMP_MORE_COMPONENTS)
            THEN readCompositeLoop(data, sk.pos, end, hi)
            ELSE [ok |-> TRUE, pos |-> sk.pos, hi |-> hi]

readCompositeGlyph(data, pos, end) == readCompositeLoop(data, pos, end, FALSE)

\* the nPoints loop of a simple glyph: [ok, pos, totalPoints, ends]
RECURSIVE ReadContourEnds(_, _, _, _, _, _, _)
ReadContourEnds(data, pos, end, i, nContours, totalPoints, ends) ==
    IF i >= nContours
    THEN [ok |-> TRUE, pos |-> pos, totalPoints |-> totalPoints, ends |-> ends]
    ELSE
        LET n == bsRead255UShort(data, pos, end) IN
        IF ~n.ok
        THEN [ok |-> FALSE, pos |-> pos, totalPoints |-> totalPoints, ends |-> ends]
        ELSE ReadContourEnds(data, n.pos, end, i + 1, nContours, totalPoints + n.v,
                             Append(ends, ToU16(totalPoints + n.v - 1)))

\* one composite glyph; g is the record of the loop's state
ReconstructComposite(data, ends, glyphId, g) ==
    LET \* the glyph written from what was read of the streams
        Write(c, compositeData, ins, bbox, instructions) ==
            LET glyphSize == 10 + Len(compositeData) + (IF c.hi THEN 2 + ins.v ELSE 0)
                out0 == GlyfEnsureCapacity(g.out, g.glyfOffset, glyphSize)
                instrOffset == g.glyfOffset + 10 + Len(compositeData)
                o1 == SetAt([ok |-> TRUE, out |-> StoreAt(out0, g.glyfOffset, Int16BE(-1))],
                            g.glyfOffset + 2, bbox.v)
                o2 == SetAt(o1, g.glyfOffset + 10, compositeData)
                o3 == IF c.hi
                      THEN SetAt([o2 EXCEPT !.out = StoreAt(@, instrOffset, Int16BE(ins.v))],
                                 instrOffset + 2, instructions.v)
                      ELSE o2
            IN
            IF ~c.ok \/ ~ins.ok \/ ~bbox.ok \/ (c.hi /\ ~instructions.ok) \/ ~o3.ok
            THEN [g EXCEPT !.ok = FALSE]
            ELSE [g EXCEPT
                    !.compositePos = c.pos,
                    !.glyphPos = ins.pos,
                    !.bboxPos = bbox.pos,
                    !.instructionPos = IF c.hi THEN instructions.pos ELSE @,
                    !.out = o3.out,
                    !.xMins = [@ EXCEPT ![glyphId + 1] = readInt16BE(bbox.v, 0)],
                    !.glyfOffset = pad4(g.glyfOffset + glyphSize)]
        \* ins is the instruction length read from the glyph stream
        ReadStreams(c, ins) ==
            Write(c, SubArray(data, g.compositePos, c.pos), ins,
                  fsReadBytes(data, g.bboxPos, ends.bbox, 8),
                  fsReadBytes(data, g.instructionPos, ends.instruction, ins.v))
        \* c is the outcome of readCompositeGlyph
        ReadInstructionLength(c) ==
            ReadStreams(c, IF c.hi THEN bsRead255UShort(data, g.glyphPos, ends.glyph)
                           ELSE Got(0, g.glyphPos))
    IN  ReadInstructionLength(readCompositeGlyph(data, g.compositePos, ends.composite))

\* one simple glyph
ReconstructSimple(data, ends, glyphId, nContours, haveBbox, overlapBitmap, g) ==
    LET \* the glyph written from what was read of the streams
        Write(ce, encoded, ins, bbox, instructions) ==
            LET glyphSize == 10 + 2 * nContours + 2 + ins.v + Len(encoded.flagsOut)
                                + Len(encoded.xOut) + Len(encoded.yOut)
                out0 == GlyfEnsureCapacity(g.out, g.glyfOffset, glyphSize)
                o1 == IF haveBbox
                      THEN SetAt([ok |-> TRUE,
                                  out |-> StoreAt(out0, g.glyfOffset, Int16BE(nContours))],
                                 g.glyfOffset + 2, bbox.v)
                      ELSE [ok |-> TRUE, out |-> StoreAt(out0, g.glyfOffset,
                                Int16BE(nContours) \o Int16BE(encoded.xMin)
                                \o Int16BE(encoded.yMin) \o Int16BE(encoded.xMax)
                                \o Int16BE(encoded.yMax))]
                xMin == IF haveBbox THEN readInt16BE(bbox.v, 0) ELSE encoded.xMin
                endsBytes == [k \in 1 .. 2 * Len(ce.ends) |->
                                IF k % 2 = 1 THEN ce.ends[(k + 1) \div 2] \div 256
                                ELSE ce.ends[k \div 2] % 256]
                instrAt == g.glyfOffset + 10 + Len(endsBytes)
                o2 == [o1 EXCEPT !.out = StoreAt(StoreAt(@, g.glyfOffset + 10, endsBytes),
                                                 instrAt, Int16BE(ins.v))]
                o3 == IF ins.v > 0 THEN SetAt(o2, instrAt + 2, instructions.v) ELSE o2
                flagsAt == instrAt + 2 + (IF ins.v > 0 THEN ins.v ELSE 0)
                o4 == SetAt(o3, flagsAt, encoded.flagsOut)
                o5 == SetAt(o4, flagsAt + Len(encoded.flagsOut), encoded.xOut)
                o6 == SetAt(o5, flagsAt + Len(encoded.flagsOut) + Len(encoded.xOut),
                            encoded.yOut)
            IN
            IF ~ce.ok \/ ~encoded.ok \/ ~ins.ok \/ ~bbox.ok \/ ~instructions.ok \/ ~o6.ok
            THEN [g EXCEPT !.ok = FALSE]
            ELSE [g EXCEPT
                    !.nPointsPos = ce.pos,
                    !.flagPos = encoded.flagPos,
                    !.glyphPos = ins.pos,
                    !.bboxPos = bbox.pos,
                    !.instructionPos = instructions.pos,
                    !.out = o6.out,
                    !.xMins = [@ EXCEPT ![glyphId + 1] = ToInt16(xMin)],
                    !.glyfOffset = pad4(g.glyfOffset + glyphSize)]
        \* ins is the instruction length read from the glyph stream
        ReadStreams(ce, encoded, ins) ==
            Write(ce, encoded, ins,
                  IF haveBbox THEN fsReadBytes(data, g.bboxPos, ends.bbox, 8)
                  ELSE [ok |-> TRUE, v |-> <<>>, pos |-> g.bboxPos],
                  IF ins.v > 0
                  THEN fsReadBytes(data, g.instructionPos, ends.instruction, ins.v)
                  ELSE [ok |-> TRUE, v |-> <<>>, pos |-> g.instructionPos])
        \* encoded is the outcome of encodeTripletsToScratch
        ReadInstructionLength(ce, encoded) ==
            ReadStreams(ce, encoded, bsRead255UShort(data, encoded.glyphPos, ends.glyph))
        \* ce is the outcome of the nPoints loop
        ReadPoints(ce) ==
            ReadInstructionLength(ce,
                encodeTripletsToScratch(data, g.flagPos, ends.flag, g.glyphPos, ends.glyph,
                                        ce.totalPoints, TestBit(overlapBitmap, glyphId)))
    IN  ReadPoints(ReadContourEnds(data, g.nPointsPos, ends.nPoints, 0, nContours, 0, <<>>))

\* the glyph loop of reconstructGlyf
RECURSIVE ReconstructGlyphs(_, _, _, _, _, _, _)
ReconstructGlyphs(data, ends, bboxBitmap, overlapBitmap, glyphId, numGlyphs, g) ==
    IF glyphId >= numGlyphs \/ ~g.ok THEN g
    ELSE
        LET g1 == [g EXCEPT !.locaValues = Append(@, g.glyfOffset)]
            nContours == bsReadS16(data, g.nContourPos, ends.nContour)
            haveBbox == TestBit(bboxBitmap, glyphId)
            g2 == [g1 EXCEPT !.nContourPos = nContours.pos]
        IN  IF ~nContours.ok THEN [g EXCEPT !.ok = FALSE]
            ELSE IF nContours.v = 0 THEN
                IF haveBbox THEN [g EXCEPT !.ok = FALSE]
                ELSE ReconstructGlyphs(data, ends, bboxBitmap, overlapBitmap,
                        glyphId + 1, numGlyphs, g2)
            ELSE IF nContours.v = -1 THEN
                IF ~haveBbox THEN [g EXCEPT !.ok = FALSE]
                ELSE ReconstructGlyphs(data, ends, bboxBitmap, overlapBitmap,
                        glyphId + 1, numGlyphs,
                        ReconstructComposite(data, ends, glyphId, g2))
            ELSE ReconstructGlyphs(data, ends, bboxBitmap, overlapBitmap,
                        glyphId + 1, numGlyphs,
                        ReconstructSimple(data, ends, glyphId, nContours.v,
                                          haveBbox, overlapBitmap, g2))

\* the loca table built from locaValues
RECURSIVE LocaBytes(_, _, _)
LocaBytes(locaValues, indexFormat, i) ==
    IF i > Len(locaValues) THEN <<>>
    ELSE (IF indexFormat # 0
          THEN <<(locaValues[i] \div 16777216) % 256, (locaValues[i] \div 65536) % 256,
                 (locaValues[i] \div 256) % 256, locaValues[i] % 256>>
          ELSE Int16BE(Shr(locaValues[i], 1)))
         \o LocaBytes(locaValues, indexFormat, i + 1)

ReconstructFail ==
    [ok |-> FALSE, glyfData |-> <<>>, locaData |-> <<>>, numGlyphs |-> 0,
     indexFormat |-> 0, xMins |-> <<>>]

\* the offset where the k-th stream of the transformed glyf table ends, the
\* sizes of the streams read from the header; the streams begin after the
\* 36 bytes of the header
RECURSIVE StreamEnd(_, _, _, _)
StreamEnd(data, srcOffset, hEnd, k) ==
    IF k = 0 THEN srcOffset + 36
    ELSE StreamEnd(data, srcOffset, hEnd, k - 1)
         + fsReadU32(data, srcOffset + 8 + 4 * (k - 1), hEnd).v

\* reconstructGlyf(data, glyfTable, _, fontInfo):
\* [ok, glyfData, locaData, numGlyphs, indexFormat, xMins]
reconstructGlyf(data, srcOffset, transformLength, origLength) ==
    LET hEnd == srcOffset + transformLength
        optionFlags == bsReadU16(data, srcOffset + 2, hEnd)
        numGlyphs == bsReadU16(data, srcOffset + 4, hEnd)
        indexFormat == bsReadU16(data, srcOffset + 6, hEnd)
        \* o[k + 1] is the end of the k-th stream
        Tables(o, bboxBitmap) ==
            LET Return(g) ==
                    IF ~g.ok THEN ReconstructFail
                    ELSE [ok |-> TRUE,
                          glyfData |-> SubArray(g.out, 0, g.glyfOffset),
                          locaData |-> LocaBytes(Append(g.locaValues, g.glyfOffset),
                                                 indexFormat.v, 1),
                          numGlyphs |-> numGlyphs.v,
                          indexFormat |-> indexFormat.v,
                          xMins |-> g.xMins]
            IN
            IF hEnd < srcOffset + 36 THEN ReconstructFail
            ELSE IF ~bboxBitmap.ok THEN ReconstructFail
            ELSE Return(ReconstructGlyphs(data,
                    [nContour |-> o[2], nPoints |-> o[3], flag |-> o[4], glyph |-> o[5],
                     composite |-> o[6], bbox |-> o[7], instruction |-> o[8]],
                    bboxBitmap.v,
                    IF HasBit(optionFlags.v, 1)
                    THEN SubArray(data, o[8], o[8] + (numGlyphs.v + 7) \div 8)
                    ELSE <<>>,
                    0, numGlyphs.v,
                    [ok |-> TRUE, nContourPos |-> o[1], nPointsPos |-> o[2],
                     flagPos |-> o[3], glyphPos |-> o[4], compositePos |-> o[5],
                     bboxPos |-> bboxBitmap.pos, instructionPos |-> o[7],
                     out |-> Zeros(origLength * 2), glyfOffset |-> 0,
                     locaValues |-> <<>>, xMins |-> Zeros(numGlyphs.v)]))
        Streams(o) ==
            Tables(o, fsReadBytes(data, o[6], o[7], ((numGlyphs.v + 31) \div 32) * 4))
    IN  Streams([k \in 1 .. 8 |-> StreamEnd(data, srcOffset, hEnd, k - 1)])

(***************************************************************************)
(* woff2/encode/transform-hmtx.ts and reconstructHmtx of the decoder.      *)
(***************************************************************************)
\* the glyph loop of transformHmtx; h is the record of its locals and
\* h.st its outcome so far: "run", "null" (the early return) or "throw"
RECURSIVE HmtxScan(_, _, _, _, _, _, _, _)
HmtxScan(data, glyfOffset, hmtxData, numHMetrics, numGlyphs, glyphOffsets, i, h) ==
    IF i >= numGlyphs \/ h.st # "run" THEN h
    ELSE
        LET glyphOffset == glyphOffsets[i + 1]
            glyphLength == glyphOffsets[i + 2] - glyphOffset
            glyphStart == glyfOffset + glyphOffset
            xMinOk == glyphLength <= 0 \/ InView(data, glyphStart + 2, 2)
            xMin == IF glyphLength > 0 THEN getInt16(data, glyphStart + 2) ELSE 0
            prop == i < numHMetrics
            need == IF prop THEN 4 ELSE 2
            lsb == getInt16(hmtxData, h.hmtxOffset + (IF prop THEN 2 ELSE 0))
        IN  IF ~xMinOk \/ ~InView(hmtxData, h.hmtxOffset, need)
            THEN [h EXCEPT !.st = "throw"]
            ELSE
                LET differs == glyphLength > 0 /\ lsb # xMin
                    canP == h.canP /\ ~(prop /\ differs)
                    canM == h.canM /\ ~(~prop /\ differs)
                IN  HmtxScan(data, glyfOffset, hmtxData, numHMetrics, numGlyphs,
                        glyphOffsets, i + 1,
                        [st |-> IF ~canP /\ ~canM THEN "null" ELSE "run",
                         canP |-> canP, canM |-> canM,
                         advances |-> IF prop
                                      THEN Append(h.advances, getUint16(hmtxData, h.hmtxOffset))
                                      ELSE h.advances,
                         pLsbs |-> IF prop THEN Append(h.pLsbs, lsb) ELSE h.pLsbs,
                         mLsbs |-> IF prop THEN h.mLsbs ELSE Append(h.mLsbs, lsb),
                         hmtxOffset |-> h.hmtxOffset + need])

RECURSIVE WriteU16s(_, _, _)
WriteU16s(wb, values, k) ==
    IF k > Len(values) THEN wb ELSE WriteU16s(writeU16(wb, values[k]), values, k + 1)

RECURSIVE WriteS16s(_, _, _)
WriteS16s(wb, values, k) ==
    IF k > Len(values) THEN wb ELSE WriteS16s(writeS16(wb, values[k]), values, k + 1)

\* transformHmtx(font, hmtxData, numHMetrics, glyphInfo): [st, data] with st
\* "ok", "null" (no transform) or "throw"
transformHmtx(data, glyfOffset, hmtxData, numHMetrics, numGlyphs, glyphOffsets) ==
    LET h == HmtxScan(data, glyfOffset, hmtxData, numHMetrics, numGlyphs, glyphOffsets, 0,
                [st |-> "run", canP |-> TRUE, canM |-> numGlyphs > numHMetrics,
                 advances |-> <<>>, pLsbs |-> <<>>, mLsbs |-> <<>>, hmtxOffset |-> 0])
        flags == (IF h.canP THEN 1 ELSE 0) + (IF h.canM THEN 2 ELSE 0)
        size == 1 + Len(h.advances) * 2
                  + (IF h.canP THEN 0 ELSE Len(h.pLsbs) * 2)
                  + (IF h.canM THEN 0 ELSE Len(h.mLsbs) * 2)
        o1 == WriteU16s(writeU8(NewWriteBuffer(size), flags), h.advances, 1)
        o2 == IF h.canP THEN o1 ELSE WriteS16s(o1, h.pLsbs, 1)
        o3 == IF h.canM THEN o2 ELSE WriteS16s(o2, h.mLsbs, 1)
    IN  IF h.st # "run" THEN [st |-> h.st, data |-> <<>>]
        ELSE IF size >= Len(hmtxData) THEN [st |-> "null", data |-> <<>>]
        ELSE [st |-> "ok", data |-> getBytes(o3)]

\* xMins[i] read from an Int16Array; undefined past its end, stored as 0
XMinAt(xMins, i) == IF i < Len(xMins) THEN xMins[i + 1] ELSE 0

\* the lsb loops of reconstructHmtx: [ok, pos, lsbs] for i in from .. to - 1
RECURSIVE ReadLsbs(_, _, _, _, _, _, _, _)
ReadLsbs(data, pos, end, i, to, fromStream, xMins, lsbs) ==
    IF i >= to THEN [ok |-> TRUE, pos |-> pos, lsbs |-> lsbs]
    ELSE IF fromStream THEN
        LET v == bsReadS16(data, pos, end) IN
        IF ~v.ok THEN [ok |-> FALSE, pos |-> pos, lsbs |-> lsbs]
        ELSE ReadLsbs(data, v.pos, end, i + 1, to, fromStream, xMins, Append(lsbs, v.v))
    ELSE ReadLsbs(data, pos, end, i + 1, to, fromStream, xMins,
                  Append(lsbs, XMinAt(xMins, i)))

RECURSIVE ReadAdvances(_, _, _, _, _)
ReadAdvances(data, pos, end, n, acc) ==
    IF n = 0 THEN [ok |-> TRUE, pos |-> pos, v |-> acc]
    ELSE LET v == bsReadU16(data, pos, end) IN
         IF ~v.ok THEN [ok |-> FALSE, pos |-> pos, v |-> acc]
         ELSE ReadAdvances(data, v.pos, end, n - 1, Append(acc, v.v))

\* the output loop of reconstructHmtx: the metrics of glyphs i .. numGlyphs - 1
RECURSIVE HmtxEntries(_, _, _, _, _)
HmtxEntries(advanceWidths, lsbs, numHMetrics, numGlyphs, i) ==
    IF i >= numGlyphs THEN <<>>
    ELSE (IF i < numHMetrics THEN Int16BE(advanceWidths[i + 1]) ELSE <<>>)
         \o Int16BE(IF i < Len(lsbs) THEN lsbs[i + 1] ELSE 0)
         \o HmtxEntries(advanceWidths, lsbs, numHMetrics, numGlyphs, i + 1)

\* reconstructHmtx(data, table, numGlyphs, numHMetrics, xMins): [ok, v]
reconstructHmtx(data, srcOffset, srcLength, numGlyphs, numHMetrics, xMins) ==
    LET end == srcOffset + srcLength
        hmtxFlags == bsReadU8(data, srcOffset, end)
        hasProportionalLsbs == ~HasBit(hmtxFlags.v, 1)
        hasMonospaceLsbs == ~HasBit(hmtxFlags.v, 2)
        adv == ReadAdvances(data, hmtxFlags.pos, end, numHMetrics, <<>>)
        \* lsbs is an Int16Array(numGlyphs): a store past its end is dropped
        l1 == ReadLsbs(data, adv.pos, end, 0, numHMetrics, hasProportionalLsbs, xMins, <<>>)
        l2 == ReadLsbs(data, l1.pos, end, numHMetrics, numGlyphs, hasMonospaceLsbs, xMins,
                       SubSeq(l1.lsbs, 1, Min(Len(l1.lsbs), numGlyphs)))
        outputSize == numHMetrics * 4 + (numGlyphs - numHMetrics) * 2
        entries == HmtxEntries(adv.v, l2.lsbs, numHMetrics, numGlyphs, 0)
    IN  IF ~hmtxFlags.ok THEN [ok |-> FALSE, v |-> <<>>]
        ELSE IF ~adv.ok THEN [ok |-> FALSE, v |-> <<>>]
        ELSE IF ~l1.ok THEN [ok |-> FALSE, v |-> <<>>]
        ELSE IF ~l2.ok THEN [ok |-> FALSE, v |-> <<>>]
        ELSE IF outputSize < 0 THEN [ok |-> FALSE, v |-> <<>>]
        ELSE [ok |-> TRUE,
              v |-> SubSeq(entries \o Zeros(outputSize), 1, outputSize)]

(***************************************************************************)
(* shared/checksum.ts.  A checksum is a 32-bit sum kept as [hi, lo].       *)
(***************************************************************************)
Add32(a, b) ==
    LET lo == a.lo + b.lo IN
    U32((a.hi + b.hi + lo \div 65536) % 65536, lo % 65536)

Sub32(a, b) ==
    LET lo == a.lo - b.lo IN
    U32((a.hi - b.hi + lo \div 65536) % 65536, lo % 65536)

\* the word at i, the bytes past the data taken as 0
WordAt(data, i) ==
    U32(ByteOr0(data, i) * 256 + ByteOr0(data, i + 1),
        ByteOr0(data, i + 2) * 256 + ByteOr0(data, i + 3))

\* the loop of computeChecksum over n words from i: (sum + word) >>> 0 for
\* each word, the additions modulo 2^32 grouped pairwise
RECURSIVE SumWords(_, _, _)
SumWords(data, i, n) ==
    IF n = 0 THEN U32(0, 0)
    ELSE IF n = 1 THEN WordAt(data, i)
    ELSE Add32(SumWords(data, i, n \div 2),
               SumWords(data, i + 4 * (n \div 2), n - (n \div 2)))

\* computeChecksum(data, offset, length): [ok, v]; view.getUint32 throws a
\* RangeError when an aligned word lies past the buffer
computeChecksum(data, offset, length) ==
    LET end == offset + length
        alignedEnd == offset + (length \div 4) * 4
        words == SumWords(data, offset, length \div 4)
        last == WordAt(SubArray(data, alignedEnd, end), 0)
    IN  IF alignedEnd > offset /\ alignedEnd > Len(data) THEN [ok |-> FALSE, v |-> U32(0, 0)]
        ELSE [ok |-> TRUE, v |-> IF end > alignedEnd THEN Add32(words, last) ELSE words]

(***************************************************************************)
(* shared/known-tags.ts                                                    *)
(***************************************************************************)
KNOWN_TAGS == <<
    1668112752, 1751474532, 1751672161, 1752003704, 1835104368, 1851878757,
    1330851634, 1886352244, 1668707360, 1718642541, 1735162214, 1819239265,
    1886545264, 1128678944, 1448038983, 1161970772, 1161972803, 1734439792,
    1751412088, 1801810542, 1280594760, 1346587732, 1447316824, 1986553185,
    1986884728, 1111577413, 1195656518, 1196445523, 1196643650, 1161974595,
    1246975046, 1296127048, 1128416340, 1128418371, 1129270354, 1129333068,
    1398163232, 1935829368, 1633906292, 1635148146, 1650745716, 1651273571,
    1651731566, 1668702578, 1717859171, 1717920116, 1718449272, 1719034226,
    1735811442, 1752396921, 1786082164, 1818452338, 1836020340, 1836020344,
    1869636196, 1886547824, 1953653099, 1516335206, 1399417958, 1198285172,
    1198288739, 1181049204, 1399417964 >>

TAG_GLYF == 1735162214
TAG_LOCA == 1819239265
TAG_HMTX == 1752003704
TAG_HHEA == 1751672161
TAG_HEAD == 1751474532
TAG_MAXP == 1835104368
TAG_CFF == 1128678944
TAG_CFF2 == 1128678962
TAG_DSIG == 1146308935
TTC_FLAVOR == 1953784678
SFNT_TTF == 65536
SFNT_CFF == 1330926671

\* the signature 'wOF2' as the four bytes of the file
\* 'wOFF', the signature of the WOFF 1 reader
WOFF_SIGNATURE == U32(30543, 17990)
WOFF2_SIGNATURE == U32(30543, 17970)

getKnownTagIndex(tag) ==
    IF \E i \in 1 .. Len(KNOWN_TAGS) : KNOWN_TAGS[i] = tag
    THEN (CHOOSE i \in 1 .. Len(KNOWN_TAGS) : KNOWN_TAGS[i] = tag) - 1
    ELSE 63

sizeBase128(value) ==
    IF value < 128 THEN 1
    ELSE IF value < 16384 THEN 2
    ELSE IF value < 2097152 THEN 3
    ELSE IF value < 268435456 THEN 4
    ELSE 5

(***************************************************************************)
(* Brotli (the brotli-lib package and woff2/decode/brotli.ts).  The        *)
(* compressed form of a payload is a frame: a length byte followed by the  *)
(* payload with every byte shifted; decompress undoes the frame and        *)
(* rejects a stream whose length byte does not fit.                        *)
(***************************************************************************)
brotliEncode(data) ==
    <<Len(data) % 251>> \o [k \in 1 .. Len(data) |-> (data[k] + 73) % 256]

\* [ok, v]: ok = FALSE is the exception of a corrupt stream
decompress(data) ==
    IF Len(data) = 0 THEN [ok |-> FALSE, v |-> <<>>]
    ELSE IF data[1] # (Len(data) - 1) % 251 THEN [ok |-> FALSE, v |-> <<>>]
    ELSE [ok |-> TRUE, v |-> [k \in 1 .. Len(data) - 1 |-> (data[k + 1] + 183) % 256]]

(***************************************************************************)
(* woff2/decode/decode.ts: the header and the table directory.             *)
(***************************************************************************)
SFNT_HEADER_SIZE == 12
SFNT_ENTRY_SIZE == 16
WOFF2_FLAGS_TRANSFORM == 32

\* a number below 2^31 as [hi, lo], and back
ToPair(n) == U32(n \div 65536, n % 65536)
IsSmall(v) == v.hi < 32768

\* the table directory: [ok, pos, tables]
RECURSIVE readTableDirectory(_, _, _, _, _)
readTableDirectory(u8, pos, numTables, srcOffset, tables) ==
    IF Len(tables) >= numTables THEN [ok |-> TRUE, pos |-> pos, tables |-> tables]
    ELSE
        LET fail == [ok |-> FALSE, pos |-> pos, tables |-> tables]
            \* the entry read: its flag byte, its tag and its origLength
            Entry(flagByte, tagRead, origLength) ==
                LET tag == IF tagRead.ok THEN ToInt32(tagRead.v) ELSE 0
                    xformVersion == (flagByte.v \div 64) % 4
                    transformed ==
                        IF tag = TAG_GLYF \/ tag = TAG_LOCA THEN xformVersion = 0
                        ELSE xformVersion # 0
                    flags == (IF transformed THEN WOFF2_FLAGS_TRANSFORM ELSE 0)
                             + xformVersion
                    \* tl is the transformLength read, or origLength
                    Checked(tl) ==
                        LET transformLength == IF tl.ok THEN tl.v ELSE 0 IN
                        IF ~flagByte.ok THEN fail
                        ELSE IF tag = 0 THEN fail
                        ELSE IF ~origLength.ok THEN fail
                        ELSE IF transformed /\ transformLength = 0 /\ tag # TAG_LOCA
                        THEN fail
                        ELSE IF transformed /\ tag = TAG_LOCA /\ transformLength # 0
                        THEN fail
                        ELSE readTableDirectory(u8, tl.pos, numTables,
                                srcOffset + transformLength,
                                Append(tables,
                                    [tag |-> tag, flags |-> flags,
                                     origLength |-> origLength.v,
                                     transformLength |-> transformLength,
                                     srcOffset |-> srcOffset,
                                     srcLength |-> transformLength]))
                IN  Checked(IF transformed THEN readBase128(u8, origLength.pos)
                            ELSE origLength)
            Tagged(flagByte, tagRead) ==
                Entry(flagByte, tagRead, readBase128(u8, tagRead.pos))
            Flagged(flagByte) ==
                Tagged(flagByte,
                       IF flagByte.v % 64 = 63 THEN readU32(u8, flagByte.pos)
                       ELSE Got(ToPair(KNOWN_TAGS[(flagByte.v % 64) + 1]), flagByte.pos))
        IN  Flagged(readU8(u8, pos))

\* the table indices of one collection font: [ok, pos, v]
RECURSIVE ReadTableIndices(_, _, _, _, _)
ReadTableIndices(u8, pos, n, numTables, acc) ==
    IF n = 0 THEN [ok |-> TRUE, pos |-> pos, v |-> acc]
    ELSE LET idx == read255UShort(u8, pos) IN
         IF ~idx.ok \/ idx.v >= numTables THEN [ok |-> FALSE, pos |-> pos, v |-> acc]
         ELSE ReadTableIndices(u8, idx.pos, n - 1, numTables, Append(acc, idx.v))

\* the font entries of a collection directory: [ok, pos, v]
RECURSIVE ReadTtcFonts(_, _, _, _, _)
ReadTtcFonts(u8, pos, n, numTables, acc) ==
    IF n = 0 THEN [ok |-> TRUE, pos |-> pos, v |-> acc]
    ELSE
        LET fail == [ok |-> FALSE, pos |-> pos, v |-> acc]
            fontNumTables == read255UShort(u8, pos)
            fontFlavor == readU32(u8, fontNumTables.pos)
            ti == ReadTableIndices(u8, fontFlavor.pos, fontNumTables.v, numTables, <<>>)
        IN  IF ~fontNumTables.ok \/ fontNumTables.v = 0 THEN fail
            ELSE IF ~fontFlavor.ok THEN fail
            ELSE IF ~ti.ok THEN fail
            ELSE ReadTtcFonts(u8, ti.pos, n - 1, numTables,
                    Append(acc, [flavor |-> fontFlavor.v, tableIndices |-> ti.v]))

HeaderNull == [ok |-> FALSE]

\* a region (metadata, private data) that starts or ends past the file
BadRegion(offset, length, totalLength) ==
    /\ offset # U32(0, 0)
    /\ \/ ~IsSmall(offset)
       \/ ToInt32(offset) >= totalLength
       \/ ~IsSmall(length)
       \/ totalLength - ToInt32(offset) < ToInt32(length)

\* a length field that is absent or larger than the input
LengthBeyond(length, totalLength) ==
    ~length.ok \/ ~IsSmall(length.v) \/ ToInt32(length.v) > totalLength

\* length === null || length !== totalLength
LengthMismatch(length, totalLength) ==
    ~length.ok \/ length.v # ToPair(totalLength)

\* readHeader(buf, totalLength); ok = FALSE is the code's null
readHeader(u8) ==
    LET totalLength == Len(u8)
        signature == readU32(u8, 0)
        flavor == readU32(u8, 4)
        length == readU32(u8, 8)
        numTables == readU16(u8, 12)
        compressedLength == readU32(u8, 20)
        metaOffset == readU32(u8, 28)
        metaLength == readU32(u8, 32)
        metaOrigLength == readU32(u8, 36)
        privOffset == readU32(u8, 40)
        privLength == readU32(u8, 44)
        isTtc == flavor.v = ToPair(TTC_FLAVOR)
        \* the header returned: the table directory dir and, of a collection,
        \* its version and its fonts
        Header(dir, lastTable, headerVersion, numFonts, fonts) ==
            IF ~dir.ok THEN HeaderNull
            ELSE IF isTtc /\ (~headerVersion.ok
                              \/ headerVersion.v \notin {U32(1, 0), U32(2, 0)})
            THEN HeaderNull
            ELSE IF isTtc /\ (~numFonts.ok \/ numFonts.v = 0) THEN HeaderNull
            ELSE IF isTtc /\ ~fonts.ok THEN HeaderNull
            ELSE [ok |-> TRUE,
                  flavor |-> flavor.v,
                  headerVersion |-> IF isTtc THEN headerVersion.v ELSE U32(0, 0),
                  numTables |-> numTables.v,
                  compressedOffset |-> IF isTtc THEN fonts.pos ELSE dir.pos,
                  compressedLength |-> compressedLength.v,
                  uncompressedSize |-> lastTable.srcOffset + lastTable.srcLength,
                  tables |-> dir.tables,
                  ttcFonts |-> IF isTtc THEN fonts.v ELSE <<>>]
        Fonts(dir, headerVersion, numFonts) ==
            Header(dir, dir.tables[Len(dir.tables)], headerVersion, numFonts,
                   ReadTtcFonts(u8, numFonts.pos, numFonts.v, Len(dir.tables), <<>>))
        Version(dir, headerVersion) ==
            Fonts(dir, headerVersion, read255UShort(u8, headerVersion.pos))
        Directory(dir) == Version(dir, readU32(u8, dir.pos))
    IN
    IF ~signature.ok THEN HeaderNull
    ELSE IF signature.v # WOFF2_SIGNATURE THEN HeaderNull
    ELSE IF ~flavor.ok THEN HeaderNull
    ELSE IF LengthMismatch(length, totalLength) THEN HeaderNull
    ELSE IF ~numTables.ok \/ numTables.v = 0 THEN HeaderNull
    ELSE IF ~compressedLength.ok THEN HeaderNull
    ELSE IF ~metaOffset.ok \/ ~metaLength.ok \/ ~metaOrigLength.ok THEN HeaderNull
    ELSE IF BadRegion(metaOffset.v, metaLength.v, totalLength) THEN HeaderNull
    ELSE IF ~privOffset.ok \/ ~privLength.ok THEN HeaderNull
    ELSE IF BadRegion(privOffset.v, privLength.v, totalLength) THEN HeaderNull
    ELSE Directory(readTableDirectory(u8, 48, numTables.v, 0, <<>>))

(***************************************************************************)
(* woff2/decode/decode.ts: writing the SFNT.                               *)
(***************************************************************************)
PairBE(v) == <<v.hi \div 256, v.hi % 256, v.lo \div 256, v.lo % 256>>

\* [...tables].sort((a, b) => a.tag - b.tag): a stable sort by tag
RECURSIVE InsertByTag(_, _)
InsertByTag(sorted, t) ==
    IF Len(sorted) = 0 THEN <<t>>
    ELSE IF sorted[Len(sorted)].tag <= t.tag THEN Append(sorted, t)
    ELSE Append(InsertByTag(SubSeq(sorted, 1, Len(sorted) - 1), t), sorted[Len(sorted)])

RECURSIVE SortByTag(_)
SortByTag(tables) ==
    IF Len(tables) = 0 THEN <<>>
    ELSE InsertByTag(SortByTag(SubSeq(tables, 1, Len(tables) - 1)), tables[Len(tables)])

RECURSIVE MaxPow2(_, _)
MaxPow2(numTables, k) ==
    IF Pow2(k + 1) <= numTables THEN MaxPow2(numTables, k + 1) ELSE k

\* the twelve bytes writeOffsetTable stores
writeOffsetTable(flavor, numTables) ==
    LET maxPow2 == MaxPow2(numTables, 0)
        searchRange == Pow2(maxPow2) * 16
    IN  PairBE(flavor) \o Int16BE(numTables) \o Int16BE(searchRange)
        \o Int16BE(maxPow2) \o Int16BE(numTables * 16 - searchRange)

\* the sixteen bytes writeTableEntry stores
writeTableEntry(tag) == U32BE(tag) \o Zeros(12)

RECURSIVE TableEntries(_, _)
TableEntries(sorted, k) ==
    IF k > Len(sorted) THEN <<>>
    ELSE writeTableEntry(sorted[k].tag) \o TableEntries(sorted, k + 1)

\* tableEntryByTag.get(tag) for the entries written from base on: the last
\* entry of that tag, -1 for undefined
EntryOffset(sorted, base, tag) ==
    LET hits == {k \in 1 .. Len(sorted) : sorted[k].tag = tag} IN
    IF hits = {} THEN -1
    ELSE base + SFNT_ENTRY_SIZE * ((CHOOSE k \in hits : \A j \in hits : j <= k) - 1)

\* sortedTables.find(t => t.tag === tag): the index, 0 for undefined
FindTag(sorted, tag) ==
    LET hits == {k \in 1 .. Len(sorted) : sorted[k].tag = tag} IN
    IF hits = {} THEN 0 ELSE CHOOSE k \in hits : \A j \in hits : k <= j

\* writtenTables.get(key): the index of the record, 0 for undefined
Written(written, tag, srcOffset) ==
    LET hits == {k \in 1 .. Len(written) :
                    written[k].tag = tag /\ written[k].srcOffset = srcOffset} IN
    IF hits = {} THEN 0 ELSE CHOOSE k \in hits : \A j \in hits : j <= k

\* updateTableEntry: checksum, offset and length into a directory entry
updateTableEntry(out, entryOffset, checksum, offset, length) ==
    StoreAt(out, entryOffset + 4, PairBE(checksum) \o U32BE(offset) \o U32BE(length))

computeTableEntryChecksum(checksum, offset, length) ==
    Add32(Add32(checksum, ToPair(offset)), ToPair(length))

\* what follows output.set(tableData, dstOffset) for every table: directory
\* entry, font checksum, writtenTables, dstOffset; o is the output after the
\* set, checksum the checksum of the table in it
RecordTable(r, tag, srcOffset, entryOffset, length, isTTC, o, checksum) ==
    IF ~o.ok \/ ~checksum.ok THEN [r EXCEPT !.ok = FALSE]
    ELSE [r EXCEPT
            !.out = updateTableEntry(o.out, entryOffset, checksum.v, r.dstOffset, length),
            !.fontChecksum =
                IF isTTC
                THEN Add32(Add32(@, checksum.v),
                           computeTableEntryChecksum(checksum.v, r.dstOffset, length))
                ELSE @,
            !.written = Append(@, [tag |-> tag, srcOffset |-> srcOffset,
                                   dstOffset |-> r.dstOffset,
                                   dstLength |-> length,
                                   checksum |-> checksum.v]),
            !.dstOffset = r.dstOffset + pad4(length)]

\* computeChecksum(output, dstOffset, tableData.byteLength) on o = [ok, out]
ChecksumIn(o, offset, length) ==
    IF o.ok THEN computeChecksum(o.out, offset, length)
    ELSE [ok |-> FALSE, v |-> U32(0, 0)]

\* the table stored into the output o, and what follows the store
StoreTable(r, tag, srcOffset, entryOffset, length, isTTC, o) ==
    RecordTable(r, tag, srcOffset, entryOffset, length, isTTC, o,
                ChecksumIn(o, r.dstOffset, length))

\* output.set(tableData, dstOffset) and what follows it for every table
PlaceTable(r, tag, srcOffset, entryOffset, tableData, isTTC) ==
    StoreTable(r, tag, srcOffset, entryOffset, Len(tableData), isTTC,
               SetAt([ok |-> r.ok, out |-> r.out], r.dstOffset, tableData))

\* the head table copied with checkSumAdjustment zeroed
HeadZeroed(tableData) ==
    IF Len(tableData) >= 12 THEN StoreAt(tableData, 8, Zeros(4)) ELSE tableData

\* a table that was written before: its directory entry is filled in from
\* the record e of writtenTables
ReuseTable(r, entryOffset, e, isTTC) ==
    [r EXCEPT
        !.out = updateTableEntry(@, entryOffset, e.checksum, e.dstOffset, e.dstLength),
        !.fontChecksum =
            IF isTTC
            THEN Add32(Add32(@, e.checksum),
                       computeTableEntryChecksum(e.checksum, e.dstOffset, e.dstLength))
            ELSE @]

\* the glyf and the loca table placed from the result of reconstructGlyf
PlaceGlyfLoca(r, table, entryOffset, locaSrcOffset, locaEntryOffset, isTTC, result) ==
    IF ~result.ok THEN [r EXCEPT !.ok = FALSE]
    ELSE PlaceTable(
            PlaceTable([r EXCEPT !.numGlyphs = result.numGlyphs,
                                 !.indexFormat = result.indexFormat,
                                 !.xMins = result.xMins],
                       table.tag, table.srcOffset, entryOffset, result.glyfData, isTTC),
            TAG_LOCA, locaSrcOffset, locaEntryOffset, result.locaData, isTTC)

\* the hmtx table placed from the result of reconstructHmtx
PlaceHmtx(r, table, entryOffset, isTTC, tableData) ==
    IF ~tableData.ok THEN [r EXCEPT !.ok = FALSE]
    ELSE PlaceTable(r, table.tag, table.srcOffset, entryOffset, tableData.v, isTTC)

\* a table that is copied from the decompressed data
PlaceCopy(r, table, entryOffset, isTTC, raw) ==
    PlaceTable(r, table.tag, table.srcOffset, entryOffset,
               IF table.tag = TAG_HEAD THEN HeadZeroed(raw) ELSE raw, isTTC)

\* one turn of the table loop of reconstructFont; sorted are the tables of
\* the font, base the offset of its first directory entry
ReconstructTable(decompressed, sorted, base, isTTC, r, table) ==
    LET entryOffset == EntryOffset(sorted, base, table.tag)
        existing == Written(r.written, table.tag, table.srcOffset)
        glyfIdx == FindTag(sorted, TAG_GLYF)
        locaIdx == FindTag(sorted, TAG_LOCA)
        transformed == HasBit(table.flags, WOFF2_FLAGS_TRANSFORM)
    IN
    IF entryOffset = -1 THEN r
    ELSE IF existing # 0 THEN ReuseTable(r, entryOffset, r.written[existing], isTTC)
    ELSE IF transformed /\ table.tag = TAG_GLYF /\ locaIdx # 0 THEN
        PlaceGlyfLoca(r, table, entryOffset, sorted[locaIdx].srcOffset,
                      EntryOffset(sorted, base, TAG_LOCA), isTTC,
                      reconstructGlyf(decompressed, sorted[glyfIdx].srcOffset,
                                      sorted[glyfIdx].transformLength,
                                      sorted[glyfIdx].origLength))
    ELSE IF transformed /\ table.tag = TAG_LOCA THEN r
    ELSE IF transformed /\ table.tag = TAG_HMTX THEN
        PlaceHmtx(r, table, entryOffset, isTTC,
                  reconstructHmtx(decompressed, table.srcOffset, table.srcLength,
                                  r.numGlyphs, r.numHMetrics, r.xMins))
    ELSE IF transformed THEN [r EXCEPT !.ok = FALSE]
    ELSE PlaceCopy(r, table, entryOffset, isTTC,
                   SubArray(decompressed, table.srcOffset,
                            table.srcOffset + table.srcLength))

RECURSIVE ReconstructTables(_, _, _, _, _, _)
ReconstructTables(decompressed, sorted, base, isTTC, r, k) ==
    IF k > Len(sorted) \/ ~r.ok THEN r
    ELSE ReconstructTables(decompressed, sorted, base, isTTC,
            ReconstructTable(decompressed, sorted, base, isTTC, r, sorted[k]), k + 1)

\* the constant with its halves exchanged: 0xafbab1b0
ChecksumMagicSwapped == U32(44986, 45488)

\* 0xb1b0afba
ChecksumMagic == U32(45488, 44986)

\* head.checkSumAdjustment stored at the end of reconstructFont; headEntry is
\* the index of the head table in writtenTables, 0 for undefined
StoreAdjustment(r, headEntry, finalChecksum) ==
    IF headEntry = 0 THEN r
    ELSE IF r.written[headEntry].dstLength < 12 THEN r
    ELSE IF ~finalChecksum.ok THEN [r EXCEPT !.ok = FALSE]
    ELSE [r EXCEPT !.out = StoreAt(@, r.written[headEntry].dstOffset + 8,
                                   PairBE(Sub32(ChecksumMagic, finalChecksum.v)))]

\* the end of reconstructFont, r holding what the table loop has written
FinishFont(sorted, isTTC, r) ==
    IF ~r.ok THEN r
    ELSE StoreAdjustment(r,
            IF FindTag(sorted, TAG_HEAD) = 0 THEN 0
            ELSE Written(r.written, TAG_HEAD, sorted[FindTag(sorted, TAG_HEAD)].srcOffset),
            IF isTTC THEN [ok |-> TRUE, v |-> r.fontChecksum]
            ELSE computeChecksum(r.out, 0, r.dstOffset))

\* numHMetrics read from the bytes of the hhea table
HheaNumHMetrics(hheaData) ==
    IF Len(hheaData) >= 36 THEN getUint16(hheaData, 34) ELSE 0

\* fontInfo.numHMetrics: 0 without an hhea table
FontNumHMetrics(decompressed, sorted, hheaIdx) ==
    IF hheaIdx = 0 THEN 0
    ELSE HheaNumHMetrics(SubArray(decompressed, sorted[hheaIdx].srcOffset,
                                  sorted[hheaIdx].srcOffset + sorted[hheaIdx].srcLength))

\* the tables of one font, sorted by tag, written into r
FontTables(decompressed, sorted, base, isTTC, headerChecksum, r0) ==
    FinishFont(sorted, isTTC,
        ReconstructTables(decompressed, sorted, base, isTTC,
            [r0 EXCEPT !.numGlyphs = 0, !.indexFormat = 0, !.xMins = <<>>,
                       !.numHMetrics = FontNumHMetrics(decompressed, sorted,
                                                       FindTag(sorted, TAG_HHEA)),
                       !.fontChecksum = headerChecksum], 1))

\* reconstructFont for the tables of one font; r carries output, dstOffset
\* and writtenTables from font to font
reconstructFont(decompressed, tables, base, isTTC, headerChecksum, r0) ==
    FontTables(decompressed, SortByTag(tables), base, isTTC, headerChecksum, r0)

\* the sizes of the tables in the output, each padded to four bytes
RECURSIVE PaddedSize(_, _)
PaddedSize(tables, k) ==
    IF k = 0 THEN 0 ELSE pad4(tables[k].origLength) + PaddedSize(tables, k - 1)

\* the return of woff2Decode for the reconstructed font r
DecodeReturn(r) ==
    IF ~r.ok THEN [ok |-> FALSE, v |-> <<>>] ELSE [ok |-> TRUE, v |-> r.out]

\* ttcFont.dstOffset of font i of a collection (writeHeaders): the offset
\* tables of the fonts follow the collection header one after the other
RECURSIVE TtcFontOffset(_, _)
TtcFontOffset(header, i) ==
    IF i = 1
    THEN 12 + 4 * Len(header.ttcFonts)
         + (IF header.headerVersion = U32(2, 0) THEN 12 ELSE 0)
    ELSE TtcFontOffset(header, i - 1) + SFNT_HEADER_SIZE
         + SFNT_ENTRY_SIZE * Len(header.ttcFonts[i - 1].tableIndices)

\* header.ttcFonts[i].tableIndices.map(k => header.tables[k])
TtcFontTables(header, i) ==
    [k \in 1 .. Len(header.ttcFonts[i].tableIndices) |->
        header.tables[header.ttcFonts[i].tableIndices[k] + 1]]

\* the bytes writeHeaders stores for a collection: the collection header,
\* the offsets of the fonts, the zeroed DSIG fields of version 2, and per
\* font its offset table and its directory entries sorted by tag
WriteTtcHeaders(header) ==
    LET n == Len(header.ttcFonts)
        RECURSIVE Offsets(_)
        Offsets(i) ==
            IF i > n THEN <<>> ELSE U32BE(TtcFontOffset(header, i)) \o Offsets(i + 1)
        RECURSIVE Fonts(_)
        Fonts(i) ==
            IF i > n THEN <<>>
            ELSE writeOffsetTable(header.ttcFonts[i].flavor,
                                  Len(header.ttcFonts[i].tableIndices))
                 \o TableEntries(SortByTag(TtcFontTables(header, i)), 1)
                 \o Fonts(i + 1)
    IN  PairBE(header.flavor) \o PairBE(header.headerVersion) \o U32BE(n)
        \o Offsets(1)
        \o (IF header.headerVersion = U32(2, 0) THEN Zeros(12) ELSE <<>>)
        \o Fonts(1)

\* call i of reconstructFont in woff2Decode, after the calls before it gave
\* r: reconstructFont takes the tables of the font, its directory and its
\* initial checksum from the header by header.ttcFonts.length; headers is
\* the output as writeHeaders left it, in which headerChecksum was computed
ReconstructFontAt(decompressed, header, headers, i, isTTC, r) ==
    IF ~r.ok THEN r
    ELSE reconstructFont(decompressed,
            IF isTTC THEN TtcFontTables(header, i) ELSE header.tables,
            IF isTTC THEN TtcFontOffset(header, i) + SFNT_HEADER_SIZE
            ELSE SFNT_HEADER_SIZE,
            isTTC,
            IF isTTC
            THEN computeChecksum(headers, TtcFontOffset(header, i),
                    SFNT_HEADER_SIZE
                    + SFNT_ENTRY_SIZE * Len(header.ttcFonts[i].tableIndices)).v
            ELSE U32(0, 0),
            r)

\* the first i calls of reconstructFont in woff2Decode, one per font of a
\* collection and one for a single font, begun from r0 and ended by the
\* first that throws
RECURSIVE ReconstructFonts(_, _, _, _, _)
ReconstructFonts(decompressed, header, headers, i, r0) ==
    IF i = 0 THEN r0
    ELSE ReconstructFontAt(decompressed, header, headers, i, Len(header.ttcFonts) > 0,
                           ReconstructFonts(decompressed, header, headers, i - 1, r0))

computeOffsetToFirstTable(header) ==
    IF Len(header.ttcFonts) > 0 THEN TtcFontOffset(header, Len(header.ttcFonts) + 1)
    ELSE SFNT_HEADER_SIZE + SFNT_ENTRY_SIZE * header.numTables

\* the output buffer of woff2Decode after writeHeaders
writeHeaders(header, first) ==
    StoreAt(Zeros(first + PaddedSize(header.tables, Len(header.tables))), 0,
            IF Len(header.ttcFonts) > 0 THEN WriteTtcHeaders(header)
            ELSE writeOffsetTable(header.flavor, header.numTables)
                 \o TableEntries(SortByTag(header.tables), 1))

\* woff2Decode from writeHeaders to the last call of reconstructFont
woff2DecodeFonts(decompressed, header, first, headers) ==
    ReconstructFonts(decompressed, header, headers, Max(Len(header.ttcFonts), 1),
        [ok |-> TRUE, out |-> headers, dstOffset |-> first,
         written |-> <<>>, numGlyphs |-> 0, indexFormat |-> 0,
         numHMetrics |-> 0, xMins |-> <<>>, fontChecksum |-> U32(0, 0)])

\* the fonts rebuilt from whatever decompress has returned
woff2DecodeUnsized(header, d) ==
    IF ~d.ok THEN [ok |-> FALSE, v |-> <<>>]
    ELSE DecodeReturn(
            reconstructFont(d.v, header.tables, SFNT_HEADER_SIZE, FALSE, U32(0, 0),
                [ok |-> TRUE,
                 out |-> StoreAt(Zeros(SFNT_HEADER_SIZE + SFNT_ENTRY_SIZE * header.numTables
                                       + PaddedSize(header.tables, Len(header.tables))), 0,
                                 writeOffsetTable(header.flavor, header.numTables)
                                 \o TableEntries(SortByTag(header.tables), 1)),
                 dstOffset |-> SFNT_HEADER_SIZE + SFNT_ENTRY_SIZE * header.numTables,
                 written |-> <<>>, numGlyphs |-> 0, indexFormat |-> 0,
                 numHMetrics |-> 0, xMins |-> <<>>, fontChecksum |-> U32(0, 0)]))

\* woff2Decode after the header was read and decompress has returned d
woff2DecodeFinish(header, d) ==
    IF ~d.ok THEN [ok |-> FALSE, v |-> <<>>]
    ELSE IF Len(d.v) # header.uncompressedSize THEN [ok |-> FALSE, v |-> <<>>]
    ELSE DecodeReturn(
            woff2DecodeFonts(d.v, header, computeOffsetToFirstTable(header),
                writeHeaders(header, computeOffsetToFirstTable(header))))

\* the bytes handed to decompress
CompressedData(input, header) ==
    IF IsSmall(header.compressedLength)
    THEN SubArray(input, header.compressedOffset,
                  header.compressedOffset + ToInt32(header.compressedLength))
    ELSE SubArray(input, header.compressedOffset, Len(input))

(***************************************************************************)
(* woff2/encode/encode.ts: woff2Encode, and parseSfnt of encode/sfnt.ts.   *)
(***************************************************************************)
EncodeThrow == [ok |-> FALSE, v |-> <<>>]

\* parseSfnt: [ok, flavor, records]; records are the directory entries in
\* file order, [tag, offset, length]
parseSfnt(data) ==
    LET flavor == readU32(data, 0)
        numTables == getUint16(data, 4)
        records == [i \in 1 .. numTables |->
                      [tag |-> ToInt32(readU32(data, 12 + (i - 1) * 16).v),
                       offset |-> ToInt32(readU32(data, 12 + (i - 1) * 16 + 8).v),
                       length |-> ToInt32(readU32(data, 12 + (i - 1) * 16 + 12).v)]]
    IN  IF Len(data) < 12 THEN [ok |-> FALSE, flavor |-> U32(0, 0), records |-> <<>>]
        ELSE IF flavor.v # ToPair(SFNT_TTF) /\ flavor.v # ToPair(SFNT_CFF)
        THEN [ok |-> FALSE, flavor |-> flavor.v, records |-> <<>>]
        ELSE IF 12 + numTables * 16 > Len(data)
        THEN [ok |-> FALSE, flavor |-> flavor.v, records |-> <<>>]
        ELSE [ok |-> TRUE, flavor |-> flavor.v, records |-> records]

\* font.tables.has(tag) and font.tables.get(tag): the last record of a tag
HasTable(records, tag) == \E k \in 1 .. Len(records) : records[k].tag = tag
GetTable(records, tag) ==
    records[CHOOSE k \in 1 .. Len(records) :
                /\ records[k].tag = tag
                /\ \A j \in 1 .. Len(records) : records[j].tag = tag => j <= k]

isCff(records) == HasTable(records, TAG_CFF) \/ HasTable(records, TAG_CFF2)

\* the keys in descending order
RECURSIVE SortedTagsDown(_)
SortedTagsDown(tags) ==
    IF tags = {} THEN <<>>
    ELSE LET m == CHOOSE t \in tags : \A u \in tags : t >= u IN
         <<m>> \o SortedTagsDown(tags \ {m})

\* the keys of the map without DSIG, in ascending order
RECURSIVE SortedTags(_)
SortedTags(tags) ==
    IF tags = {} THEN <<>>
    ELSE LET m == CHOOSE t \in tags : \A u \in tags : t <= u IN
         <<m>> \o SortedTags(tags \ {m})

\* getGlyphInfo: [ok, numGlyphs, indexFormat, glyphOffsets]
getGlyphInfo(data, records) ==
    LET fail == [ok |-> FALSE, numGlyphs |-> 0, indexFormat |-> 0, glyphOffsets |-> <<>>]
        maxp == GetTable(records, TAG_MAXP)
        head == GetTable(records, TAG_HEAD)
        loca == GetTable(records, TAG_LOCA)
        numGlyphs == getUint16(data, maxp.offset + 4)
        indexFormat == getInt16(data, head.offset + 50)
        width == IF indexFormat = 0 THEN 2 ELSE 4
    IN  IF ~HasTable(records, TAG_MAXP) THEN fail
        ELSE IF maxp.length < 6 \/ ~InView(data, maxp.offset + 4, 2) THEN fail
        ELSE IF ~HasTable(records, TAG_HEAD) THEN fail
        ELSE IF head.length < 54 \/ ~InView(data, head.offset + 50, 2) THEN fail
        ELSE IF ~InView(data, loca.offset, (numGlyphs + 1) * width) THEN fail
        ELSE [ok |-> TRUE, numGlyphs |-> numGlyphs, indexFormat |-> indexFormat,
              glyphOffsets |->
                [i \in 1 .. numGlyphs + 1 |->
                    IF indexFormat = 0
                    THEN getUint16(data, loca.offset + (i - 1) * 2) * 2
                    ELSE getUint32(data, loca.offset + (i - 1) * 4)]]

\* the head table passed on with its flags as they are: [ok, v, input]
HeadCopied(data, entry) ==
    [ok |-> TRUE, v |-> SubArray(data, entry.offset, entry.offset + entry.length),
     input |-> data]

\* bit 11 of flags set through a view of the input: the write lands in the
\* input as well
HeadInPlace(data, entry) ==
    LET tableData == SubArray(data, entry.offset, entry.offset + entry.length)
        flags == getUint16(tableData, 16)
    IN  IF ~InView(tableData, 16, 2) THEN [ok |-> FALSE, v |-> <<>>, input |-> data]
        ELSE [ok |-> TRUE,
              v |-> StoreAt(tableData, 16, Int16BE(BitOr(flags, 2048))),
              input |-> StoreAt(data, entry.offset + 16, Int16BE(BitOr(flags, 2048)))]

\* the copy of head with bit 11 of flags set: [ok, v, input]; tableData is
\* a new Uint8Array, so the input is after the write what it was before
HeadWithBit11(data, entry) ==
    LET tableData == SubArray(data, entry.offset, entry.offset + entry.length)
        copy == tableData \o Zeros(entry.length - Len(tableData))
        flags == getUint16(copy, 16)
    IN  IF ~InView(copy, 16, 2) THEN [ok |-> FALSE, v |-> <<>>, input |-> data]
        ELSE [ok |-> TRUE,
              v |-> StoreAt(copy, 16, Int16BE(BitOr(flags, 2048))),
              input |-> data]

\* one entry of the table directory
DirectoryEntry(info) ==
    LET tagIndex == getKnownTagIndex(info.tag)
        flags == (tagIndex % 64)
                 + (IF (info.tag = TAG_GLYF \/ info.tag = TAG_LOCA)
                        /\ info.transformVersion = 3 THEN 192 ELSE 0)
                 + (IF info.tag = TAG_HMTX /\ info.transformVersion = 1 THEN 64 ELSE 0)
        needsTransformLength ==
            \/ (info.tag = TAG_GLYF \/ info.tag = TAG_LOCA) /\ info.transformVersion = 0
            \/ info.tag = TAG_HMTX /\ info.transformVersion = 1
        WriteTag(w) == IF tagIndex = 63 THEN writeU32(w, info.tag) ELSE w
        WriteTransformLength(w) ==
            IF needsTransformLength
            THEN writeBase128(w, ToPair(info.transformLength)) ELSE w
    IN  [bytes |-> getBytes(WriteTransformLength(
                    writeBase128(WriteTag(writeU8(NewWriteBuffer(0), flags)),
                                 ToPair(info.origLength)))),
         size |-> 1 + (IF tagIndex = 63 THEN 4 ELSE 0) + sizeBase128(info.origLength)
                    + (IF needsTransformLength THEN sizeBase128(info.transformLength) ELSE 0)]

\* getNumHMetrics: [ok, v]
getNumHMetrics(data, records) ==
    LET hhea == GetTable(records, TAG_HHEA) IN
    IF ~HasTable(records, TAG_HHEA) THEN [ok |-> FALSE, v |-> 0]
    ELSE IF hhea.length < 36 \/ ~InView(data, hhea.offset + 34, 2) THEN [ok |-> FALSE, v |-> 0]
    ELSE [ok |-> TRUE, v |-> getUint16(data, hhea.offset + 34)]

\* the table infos of woff2Encode, in sortedTags order: [ok, infos, input];
\* input is the input buffer as the loop leaves it
RECURSIVE BuildTableInfos(_, _, _, _, _, _)
BuildTableInfos(data, records, sortedTags, k, glyf, hmtx) ==
    IF k > Len(sortedTags) THEN [ok |-> TRUE, infos |-> <<>>, input |-> data]
    ELSE
    LET tag == sortedTags[k]
        entry == GetTable(records, tag)
        head == HeadWithBit11(data, entry)
        raw == SubArray(data, entry.offset, entry.offset + entry.length)
        info ==
            IF tag = TAG_GLYF /\ glyf.present
            THEN [tag |-> tag, origLength |-> glyf.origLength,
                  transformLength |-> Len(glyf.data), transformVersion |-> 0,
                  data |-> glyf.data]
            ELSE IF tag = TAG_LOCA /\ glyf.present
            THEN [tag |-> tag, origLength |-> entry.length,
                  transformLength |-> 0, transformVersion |-> 0, data |-> <<>>]
            ELSE IF tag = TAG_HMTX /\ hmtx.present
            THEN [tag |-> tag, origLength |-> entry.length,
                  transformLength |-> Len(hmtx.data), transformVersion |-> 1,
                  data |-> hmtx.data]
            ELSE IF tag = TAG_HEAD
            THEN [tag |-> tag, origLength |-> entry.length,
                  transformLength |-> entry.length, transformVersion |-> 0,
                  data |-> head.v]
            ELSE [tag |-> tag, origLength |-> entry.length,
                  transformLength |-> entry.length, transformVersion |-> 0,
                  data |-> raw]
        isHead == tag = TAG_HEAD /\ ~(tag = TAG_GLYF /\ glyf.present)
        rest == BuildTableInfos(IF isHead THEN head.input ELSE data,
                                records, sortedTags, k + 1, glyf, hmtx)
    IN  IF isHead /\ ~head.ok THEN [ok |-> FALSE, infos |-> <<>>, input |-> data]
        ELSE IF ~rest.ok THEN rest
        ELSE [ok |-> TRUE, infos |-> <<info>> \o rest.infos, input |-> rest.input]

RECURSIVE ConcatData(_, _)
ConcatData(infos, k) ==
    IF k > Len(infos) THEN <<>> ELSE infos[k].data \o ConcatData(infos, k + 1)

RECURSIVE PaddedTotal(_, _)
PaddedTotal(infos, k) ==
    IF k > Len(infos) THEN 0
    ELSE pad4(infos[k].origLength) + PaddedTotal(infos, k + 1)

RECURSIVE DirectorySize(_, _)
DirectorySize(infos, k) ==
    IF k > Len(infos) THEN 0
    ELSE DirectoryEntry(infos[k]).size + DirectorySize(infos, k + 1)

\* woff2Encode: [ok, v, input]; ok FALSE is a thrown exception, input the
\* bytes of the caller's buffer when the call ends
woff2Encode(input) ==
    LET Encoded(font) ==
            LET records == font.records
                hasCff == isCff(records)
                sortedTags ==
                    SortedTags({records[k].tag : k \in 1 .. Len(records)} \ {TAG_DSIG})
                doGlyf == ~hasCff /\ HasTable(records, TAG_GLYF)
                            /\ HasTable(records, TAG_LOCA)
                glyfEntry == GetTable(records, TAG_GLYF)
                doHmtx == doGlyf /\ HasTable(records, TAG_HMTX)
                hmtxEntry == GetTable(records, TAG_HMTX)
                \* the header, the table directory and the compressed stream
                Items(tableInfos, compressed, totalSize) ==
                    <<U32Bytes(ToInt32(WOFF2_SIGNATURE)),
                      U32Bytes(ToInt32(font.flavor)),
                      U32Bytes(totalSize),
                      U16Bytes(Len(tableInfos)),
                      U16Bytes(0),
                      U32Bytes(SFNT_HEADER_SIZE + Len(tableInfos) * SFNT_ENTRY_SIZE
                               + PaddedTotal(tableInfos, 1)),
                      U32Bytes(Len(compressed)),
                      U16Bytes(1), U16Bytes(0),
                      U32Bytes(0), U32Bytes(0), U32Bytes(0), U32Bytes(0), U32Bytes(0)>>
                    \o [k \in 1 .. Len(tableInfos) |-> DirectoryEntry(tableInfos[k]).bytes]
                    \o <<compressed>>
                WriteItems(output, items) == WriteAll(output, items, 1, Len(items))
                Output(tableInfos, compressed, totalSize) ==
                    [ok |-> TRUE,
                     v |-> getBytes(WriteItems(NewWriteBuffer(totalSize),
                                            Items(tableInfos, compressed, totalSize)))]
                Compressed(tableInfos, compressed) ==
                    Output(tableInfos, compressed,
                           48 + DirectorySize(tableInfos, 1) + Len(compressed))
                WithInput(r, after) == [ok |-> r.ok, v |-> r.v, input |-> after]
                Built(built) ==
                    IF ~built.ok THEN EncodeThrow
                    ELSE WithInput(Compressed(built.infos,
                                              brotliEncode(ConcatData(built.infos, 1))),
                                   built.input)
                Transformed(glyphInfo, numHMetrics, transformed, hmtxT) ==
                    IF doGlyf /\ ~glyphInfo.ok THEN EncodeThrow
                    ELSE IF doGlyf /\ ~transformed.ok THEN EncodeThrow
                    ELSE IF doHmtx /\ ~numHMetrics.ok THEN EncodeThrow
                    ELSE IF doHmtx /\ hmtxT.st = "throw" THEN EncodeThrow
                    ELSE Built(BuildTableInfos(input, records, sortedTags, 1,
                            IF doGlyf
                            THEN [present |-> TRUE, data |-> transformed.data,
                                  origLength |-> transformed.origLength]
                            ELSE [present |-> FALSE, data |-> <<>>, origLength |-> 0],
                            IF doHmtx /\ hmtxT.st = "ok"
                            THEN [present |-> TRUE, data |-> hmtxT.data]
                            ELSE [present |-> FALSE, data |-> <<>>]))
                Measured(glyphInfo, numHMetrics) ==
                    Transformed(glyphInfo, numHMetrics,
                        transformGlyf(input, glyfEntry.offset, glyfEntry.length,
                                      glyphInfo.numGlyphs, glyphInfo.indexFormat,
                                      glyphInfo.glyphOffsets),
                        transformHmtx(input, glyfEntry.offset,
                                      SubArray(input, hmtxEntry.offset,
                                               hmtxEntry.offset + hmtxEntry.length),
                                      numHMetrics.v, glyphInfo.numGlyphs,
                                      glyphInfo.glyphOffsets))
            IN  IF ~font.ok THEN EncodeThrow
                ELSE Measured(getGlyphInfo(input, records), getNumHMetrics(input, records))
        \* nothing is written before the statement that throws
        Returned(r) == IF r.ok THEN r ELSE [ok |-> FALSE, v |-> <<>>, input |-> input]
    IN  Returned(Encoded(parseSfnt(input)))

(***************************************************************************)
(* Input fonts.  A glyph of an input is described by                       *)
(*   [kind, pts, instr, bbox, comp]                                        *)
(* kind "empty" | "simple" | "composite"; pts the points <<on, dx, dy>> of *)
(* a one-contour outline; instr the instruction bytes; bbox <<>> (the box  *)
(* of the points) or <<xMin, yMin, xMax, yMax>>; comp the component        *)
(* records of a composite.  From such descriptions the two forms a font    *)
(* file can carry are built: the WOFF2 transformed glyf table, and the     *)
(* TrueType glyf and loca tables.                                          *)
(***************************************************************************)
RECURSIVE SumTo(_, _, _)
SumTo(pts, k, c) == IF k = 0 THEN 0 ELSE pts[k][c] + SumTo(pts, k - 1, c)

\* the bounding box of a glyph description
DesignBbox(gd) ==
    IF gd.bbox # <<>> THEN gd.bbox
    ELSE IF Len(gd.pts) = 0 THEN <<0, 0, 0, 0>>
    ELSE LET xs == [k \in 1 .. Len(gd.pts) |-> SumTo(gd.pts, k, 2)]
             ys == [k \in 1 .. Len(gd.pts) |-> SumTo(gd.pts, k, 3)]
         IN  <<SeqMin(xs), SeqMin(ys), SeqMax(xs), SeqMax(ys)>>

BboxBytes(bb) == Int16BE(bb[1]) \o Int16BE(bb[2]) \o Int16BE(bb[3]) \o Int16BE(bb[4])

\* does the composite description carry instructions (WE_HAVE_INSTRUCTIONS
\* in its first component)
DesignHasInstr(gd) == HasBit(gd.comp[1] * 256 + gd.comp[2], COMP_WE_HAVE_INSTRUCTIONS)

\* a point as a WOFF2 triplet <<flag, bytes>>: the one-byte form for a
\* vertical move, the four-byte form otherwise
GenTriplet(pt) ==
    LET onBit == IF pt[1] = 1 THEN 0 ELSE 128
        xs == IF pt[2] >= 0 THEN 1 ELSE 0
        ys == IF pt[3] >= 0 THEN 1 ELSE 0
    IN  IF pt[2] = 0 /\ Abs(pt[3]) < 1280
        THEN <<onBit + 2 * (Abs(pt[3]) \div 256) + ys, <<Abs(pt[3]) % 256>>>>
        ELSE <<onBit + 124 + xs + 2 * ys,
               <<Abs(pt[2]) \div 256, Abs(pt[2]) % 256,
                 Abs(pt[3]) \div 256, Abs(pt[3]) % 256>>>>

RECURSIVE GenTripletFlags(_, _)
GenTripletFlags(pts, k) ==
    IF k > Len(pts) THEN <<>>
    ELSE <<GenTriplet(pts[k])[1]>> \o GenTripletFlags(pts, k + 1)

RECURSIVE GenTripletBytes(_, _)
GenTripletBytes(pts, k) ==
    IF k > Len(pts) THEN <<>>
    ELSE GenTriplet(pts[k])[2] \o GenTripletBytes(pts, k + 1)

\* a count as a 255UInt16: one byte below 253, the word form otherwise
Gen255UShort(n) == IF n < 253 THEN <<n>> ELSE <<253, n \div 256, n % 256>>

\* the streams of the glyphs from k on, as a record of byte sequences
RECURSIVE GenStreams(_, _, _)
GenStreams(glyphs, k, acc) ==
    IF k > Len(glyphs) THEN acc
    ELSE
        LET gd == glyphs[k]
            explicit == gd.kind = "composite" \/ (gd.kind = "simple" /\ gd.bbox # <<>>)
            withBbox(r) ==
                IF explicit
                THEN [r EXCEPT !.bboxBitmap = SetBit(@, k - 1),
                               !.bbox = @ \o BboxBytes(DesignBbox(gd))]
                ELSE r
        IN  GenStreams(glyphs, k + 1,
                IF gd.kind = "empty"
                THEN [acc EXCEPT !.nContour = @ \o Int16BE(0)]
                ELSE IF gd.kind = "simple"
                THEN withBbox([acc EXCEPT
                        !.nContour = @ \o Int16BE(1),
                        !.nPoints = Append(@, Len(gd.pts)),
                        !.flag = @ \o GenTripletFlags(gd.pts, 1),
                        !.glyph = @ \o GenTripletBytes(gd.pts, 1) \o Gen255UShort(Len(gd.instr)),
                        !.instruction = @ \o gd.instr])
                ELSE withBbox([acc EXCEPT
                        !.nContour = @ \o Int16BE(-1),
                        !.composite = @ \o gd.comp,
                        !.glyph = IF DesignHasInstr(gd) THEN @ \o Gen255UShort(Len(gd.instr)) ELSE @,
                        !.instruction = IF DesignHasInstr(gd) THEN @ \o gd.instr ELSE @]))

\* the transformed glyf table of a list of glyph descriptions
GenTransformedGlyf(glyphs, indexFormat) ==
    LET n == Len(glyphs)
        st == GenStreams(glyphs, 1,
                [nContour |-> <<>>, nPoints |-> <<>>, flag |-> <<>>, glyph |-> <<>>,
                 composite |-> <<>>, bbox |-> <<>>, instruction |-> <<>>,
                 bboxBitmap |-> Zeros(((n + 31) \div 32) * 4)])
    IN  Int16BE(0) \o Int16BE(0) \o Int16BE(n) \o Int16BE(indexFormat)
        \o U32BE(Len(st.nContour)) \o U32BE(Len(st.nPoints)) \o U32BE(Len(st.flag))
        \o U32BE(Len(st.glyph)) \o U32BE(Len(st.composite))
        \o U32BE(Len(st.bboxBitmap) + Len(st.bbox)) \o U32BE(Len(st.instruction))
        \o st.nContour \o st.nPoints \o st.flag \o st.glyph \o st.composite
        \o st.bboxBitmap \o st.bbox \o st.instruction

RECURSIVE GenRawFlags(_, _)
GenRawFlags(pts, k) ==
    IF k > Len(pts) THEN <<>>
    ELSE <<pts[k][1] + CoordFlag(pts[k][2], FLAG_X_SHORT, FLAG_X_SAME_OR_POSITIVE)
                     + CoordFlag(pts[k][3], FLAG_Y_SHORT, FLAG_Y_SAME_OR_POSITIVE)>>
         \o GenRawFlags(pts, k + 1)

RECURSIVE GenRawCoords(_, _, _)
GenRawCoords(pts, k, c) ==
    IF k > Len(pts) THEN <<>>
    ELSE CoordBytes(pts[k][c]) \o GenRawCoords(pts, k + 1, c)

\* one glyph record of a TrueType glyf table (flags not run-length packed)
GenRawGlyph(gd) ==
    IF gd.kind = "empty" THEN <<>>
    ELSE IF gd.kind = "simple" THEN
        Int16BE(1) \o BboxBytes(DesignBbox(gd)) \o Int16BE(Len(gd.pts) - 1)
        \o Int16BE(Len(gd.instr)) \o gd.instr
        \o GenRawFlags(gd.pts, 1) \o GenRawCoords(gd.pts, 1, 2) \o GenRawCoords(gd.pts, 1, 3)
    ELSE
        Int16BE(-1) \o BboxBytes(DesignBbox(gd)) \o gd.comp
        \o (IF DesignHasInstr(gd) THEN Int16BE(Len(gd.instr)) \o gd.instr ELSE <<>>)

PadTo(bytes, align) == bytes \o Zeros((align - (Len(bytes) % align)) % align)

\* the glyf table with every record padded to align bytes
RECURSIVE GenRawGlyf(_, _, _)
GenRawGlyf(glyphs, align, k) ==
    IF k > Len(glyphs) THEN <<>>
    ELSE PadTo(GenRawGlyph(glyphs[k]), align) \o GenRawGlyf(glyphs, align, k + 1)

\* the loca table that goes with it
GenRawLoca(glyphs, align, indexFormat) ==
    LocaBytes([k \in 1 .. Len(glyphs) + 1 |->
                  Len(GenRawGlyf(SubSeq(glyphs, 1, k - 1), align, 1))],
              indexFormat, 1)

(***************************************************************************)
(* Whole input files.  A font is described by                              *)
(*   [outline, glyphs, indexFormat, align, lsbMode, allMetrics, headFlags, *)
(*    extra, hmtxForm]                                                     *)
(* outline "glyf" | "cff"; align the padding of the glyph records of a     *)
(* TrueType glyf table; lsbMode "xmin" (every lsb is the glyph's xMin, 0   *)
(* for an empty glyph), "five" (every lsb is 5) or "emptyOff" (xMin, but 5 *)
(* for an empty glyph); allMetrics: numberOfHMetrics is numGlyphs, else 1; *)
(* extra "none" | "DSIG" | "private"; hmtxForm "raw" | "transformed" (the  *)
(* form hmtx has inside a WOFF2 file).                                     *)
(***************************************************************************)
DesignNumHMetrics(d) == IF d.allMetrics THEN Len(d.glyphs) ELSE 1

DesignLsb(d, k) ==
    LET gd == d.glyphs[k] IN
    IF d.lsbMode = "five" THEN 5
    ELSE IF gd.kind = "empty" THEN (IF d.lsbMode = "emptyOff" THEN 5 ELSE 0)
    ELSE DesignBbox(gd)[1]

\* head: 54 bytes, flags at 16, unitsPerEm 1000, indexToLocFormat at 50
GenHead(d) ==
    <<0, 1, 0, 0>> \o <<0, 1, 0, 0>> \o Zeros(4) \o <<95, 15, 60, 245>>
    \o Int16BE(d.headFlags) \o Int16BE(1000) \o Zeros(16) \o Zeros(8)
    \o Zeros(2) \o Int16BE(8) \o Int16BE(2) \o Int16BE(d.indexFormat) \o Zeros(2)

\* hhea: 36 bytes, numberOfHMetrics at 34
GenHhea(d) == <<0, 1, 0, 0>> \o Int16BE(800) \o Int16BE(-200) \o Zeros(26)
              \o Int16BE(DesignNumHMetrics(d))

\* maxp version 0.5: numGlyphs at 4
GenMaxp(d) == <<0, 0, 80, 0>> \o Int16BE(Len(d.glyphs))

RECURSIVE GenHmtx(_, _)
GenHmtx(d, k) ==
    IF k > Len(d.glyphs) THEN <<>>
    ELSE (IF k <= DesignNumHMetrics(d) THEN Int16BE(500 + k) ELSE <<>>)
         \o Int16BE(DesignLsb(d, k)) \o GenHmtx(d, k + 1)

\* hmtx with both lsb arrays left out
RECURSIVE GenTransformedHmtx(_, _)
GenTransformedHmtx(d, k) ==
    IF k = 0 THEN <<3>> \o GenTransformedHmtx(d, 1)
    ELSE IF k > DesignNumHMetrics(d) THEN <<>>
    ELSE Int16BE(500 + k) \o GenTransformedHmtx(d, k + 1)

\* the tables every font of the description has, and the extra one
GenCommonTables(d) ==
    <<[tag |-> TAG_HEAD, data |-> GenHead(d)],
      [tag |-> TAG_HHEA, data |-> GenHhea(d)],
      [tag |-> TAG_MAXP, data |-> GenMaxp(d)]>>
    \* 'DSIG' and 'zzzz'
    \o (IF d.extra = "DSIG" THEN <<[tag |-> 1146308935, data |-> <<0, 0, 0, 1, 0, 0, 0, 0>>]>>
        ELSE IF d.extra = "private" THEN <<[tag |-> 2054847098, data |-> <<1, 2, 3, 4, 5>>]>>
        ELSE <<>>)

GenFlavor(d) == IF d.outline = "cff" THEN SFNT_CFF ELSE SFNT_TTF

\* the tables of the SFNT file of a description
GenSfntTables(d) ==
    GenCommonTables(d)
    \o <<[tag |-> TAG_HMTX, data |-> GenHmtx(d, 1)]>>
    \o (IF d.outline = "cff"
        THEN <<[tag |-> TAG_CFF, data |-> <<1, 0, 4, 1, 0, 1, 1>>]>>
        ELSE <<[tag |-> TAG_GLYF, data |-> GenRawGlyf(d.glyphs, d.align, 1)],
               [tag |-> TAG_LOCA,
                data |-> GenRawLoca(d.glyphs, d.align, d.indexFormat)]>>)

RECURSIVE GenOffsets(_, _, _)
GenOffsets(tbls, k, at) ==
    IF k > Len(tbls) THEN <<>>
    ELSE <<at>> \o GenOffsets(tbls, k + 1, at + pad4(Len(tbls[k].data)))

RECURSIVE GenBody(_, _)
GenBody(tbls, k) ==
    IF k > Len(tbls) THEN <<>>
    ELSE PadTo(tbls[k].data, 4) \o GenBody(tbls, k + 1)

RECURSIVE GenDirectory(_, _, _)
GenDirectory(tbls, offsets, k) ==
    IF k > Len(tbls) THEN <<>>
    ELSE U32BE(tbls[k].tag)
         \o PairBE(computeChecksum(PadTo(tbls[k].data, 4), 0, Len(tbls[k].data)).v)
         \o U32BE(offsets[k]) \o U32BE(Len(tbls[k].data))
         \o GenDirectory(tbls, offsets, k + 1)

\* an SFNT file: offset table, directory in tag order, tables padded to 4,
\* head.checkSumAdjustment set
GenSfntFile(flavor, tables) ==
    LET tbls == SortByTag(tables)
        offsets == GenOffsets(tbls, 1, 12 + 16 * Len(tbls))
        file == writeOffsetTable(ToPair(flavor), Len(tbls))
                \o GenDirectory(tbls, offsets, 1) \o GenBody(tbls, 1)
        headIdx == FindTag(tbls, TAG_HEAD)
        sum == computeChecksum(file, 0, Len(file)).v
    IN  IF headIdx = 0 THEN file
        ELSE StoreAt(file, offsets[headIdx] + 8, PairBE(Sub32(ChecksumMagic, sum)))

GenSfnt(d) == GenSfntFile(GenFlavor(d), GenSfntTables(d))

\* UIntBase128 of a number below 2^14
GenBase128(n) == IF n < 128 THEN <<n>> ELSE <<128 + (n \div 128), n % 128>>

\* the entries of the WOFF2 file of a description: [tag, version, origLength,
\* transformed, data]
GenWoff2Entries(d) ==
    LET raw(t) == [tag |-> t.tag, version |-> 0, origLength |-> Len(t.data),
                   transformed |-> FALSE, data |-> t.data]
        common == GenCommonTables(d)
        hmtx == IF d.hmtxForm = "transformed"
                THEN [tag |-> TAG_HMTX, version |-> 1,
                      origLength |-> Len(GenHmtx(d, 1)), transformed |-> TRUE,
                      data |-> GenTransformedHmtx(d, 0)]
                ELSE raw([tag |-> TAG_HMTX, data |-> GenHmtx(d, 1)])
        outline ==
            IF d.outline = "cff"
            THEN <<raw([tag |-> TAG_CFF, data |-> <<1, 0, 4, 1, 0, 1, 1>>])>>
            ELSE <<[tag |-> TAG_GLYF, version |-> 0,
                    origLength |-> Len(GenRawGlyf(d.glyphs, 4, 1)), transformed |-> TRUE,
                    data |-> GenTransformedGlyf(d.glyphs, d.indexFormat)],
                   [tag |-> TAG_LOCA, version |-> 0,
                    origLength |-> (Len(d.glyphs) + 1) * (IF d.indexFormat = 0 THEN 2 ELSE 4),
                    transformed |-> TRUE, data |-> <<>>]>>
    IN  SortByTag([k \in 1 .. Len(common) |-> raw(common[k])] \o <<hmtx>> \o outline)

RECURSIVE GenWoff2Directory(_, _)
GenWoff2Directory(entries, k) ==
    IF k > Len(entries) THEN <<>>
    ELSE LET e == entries[k]
             idx == getKnownTagIndex(e.tag)
         IN  <<idx + 64 * e.version>>
             \o (IF idx = 63 THEN U32BE(e.tag) ELSE <<>>)
             \o GenBase128(e.origLength)
             \o (IF e.transformed THEN GenBase128(Len(e.data)) ELSE <<>>)
             \o GenWoff2Directory(entries, k + 1)

RECURSIVE GenWoff2Stream(_, _)
GenWoff2Stream(entries, k) ==
    IF k > Len(entries) THEN <<>>
    ELSE entries[k].data \o GenWoff2Stream(entries, k + 1)

RECURSIVE GenPaddedTotal(_, _)
GenPaddedTotal(entries, k) ==
    IF k > Len(entries) THEN 0
    ELSE pad4(entries[k].origLength) + GenPaddedTotal(entries, k + 1)

\* a WOFF2 file: 48-byte header, directory, compressed table data
GenWoff2(d) ==
    LET entries == GenWoff2Entries(d)
        directory == GenWoff2Directory(entries, 1)
        compressed == brotliEncode(GenWoff2Stream(entries, 1))
        length == 48 + Len(directory) + Len(compressed)
    IN  <<119, 79, 70, 50>> \o U32BE(GenFlavor(d)) \o U32BE(length)
        \o Int16BE(Len(entries)) \o Zeros(2)
        \o U32BE(12 + 16 * Len(entries) + GenPaddedTotal(entries, 1))
        \o U32BE(Len(compressed)) \o Int16BE(1) \o Zeros(2) \o Zeros(20)
        \o directory \o compressed

(***************************************************************************)
(* The glyphs and fonts the conversions are run on.                        *)
(***************************************************************************)
GEmpty == [kind |-> "empty", pts |-> <<>>, instr |-> <<>>, bbox |-> <<>>, comp |-> <<>>]

\* an outline of axis-parallel moves
GLine == [kind |-> "simple", pts |-> <<<<1, 0, 5>>, <<1, 3, 0>>, <<0, 0, -300>>>>,
          instr |-> <<>>, bbox |-> <<>>, comp |-> <<>>]

\* an outline with diagonal moves
GDiag == [kind |-> "simple", pts |-> <<<<1, 17, 1>>, <<1, -2, 3>>>>,
          instr |-> <<7>>, bbox |-> <<>>, comp |-> <<>>]

\* an outline whose stored bounding box is wider than its points
GBoxed == [kind |-> "simple", pts |-> <<<<1, 2, 0>>, <<0, 0, 4>>>>,
           instr |-> <<>>, bbox |-> <<-1, 0, 9, 4>>, comp |-> <<>>]

\* one component (glyph 0, byte arguments) followed by instructions
GComp == [kind |-> "composite", pts |-> <<>>, instr |-> <<9, 8>>,
          bbox |-> <<0, -300, 3, 5>>, comp |-> <<1, 0, 0, 0, 1, 2>>]

\* an outline with the longest instruction block a glyph can carry
GBig == [kind |-> "simple", pts |-> <<<<1, 0, 5>>>>,
         instr |-> Zeros(65535), bbox |-> <<>>, comp |-> <<>>]

GlyphLists ==
    { <<GLine, GEmpty>>, <<GLine, GDiag>>, <<GBoxed, GEmpty, GComp>> }

\* the SFNT files handed to woff2Encode
SfntDesigns ==
    { [outline |-> o, glyphs |-> g, indexFormat |-> f, align |-> a, lsbMode |-> l,
       allMetrics |-> m, headFlags |-> h, extra |-> e, hmtxForm |-> "raw"] :
        o \in {"glyf", "cff"}, g \in GlyphLists, f \in {0, 1}, a \in {2, 4},
        l \in {"xmin", "five", "emptyOff"}, m \in BOOLEAN, h \in {5, 2053},
        e \in {"none", "DSIG", "private"} }

\* the WOFF2 files handed to woff2Decode
Woff2Designs ==
    { d \in [outline : {"glyf", "cff"}, glyphs : GlyphLists, indexFormat : {0, 1},
             align : {4}, lsbMode : {"xmin", "five", "emptyOff"},
             allMetrics : BOOLEAN, headFlags : {5, 2053},
             extra : {"none", "private"}, hmtxForm : {"raw", "transformed"}] :
        d.hmtxForm = "transformed" => (d.outline = "glyf" /\ d.lsbMode = "xmin") }

(***************************************************************************)
(* The variable-length codecs on their own: a value is written with the    *)
(* encoder's WriteBuffer and read back with the decoder's reader.          *)
(***************************************************************************)
\* 7-bit groups the UIntBase128 inputs are assembled from
GroupSamples == {0, 1, 64, 127}

\* every value g4*2^28 + g3*2^21 + g2*2^14 + g1*2^7 + g0 with g4 in 0..15
Base128Inputs ==
    { U32(g4 * 4096 + g3 * 32 + g2 \div 4, (g2 % 4) * 16384 + g1 * 128 + g0) :
        g4 \in 0 .. 15, g3 \in GroupSamples, g2 \in GroupSamples,
        g1 \in GroupSamples, g0 \in GroupSamples }

U255Inputs == { U32(0, v) : v \in 0 .. 65535 }

NoDesign ==
    [outline |-> "none", glyphs |-> <<>>, indexFormat |-> 0, align |-> 4,
     lsbMode |-> "xmin", allMetrics |-> TRUE, headFlags |-> 0, extra |-> "none",
     hmtxForm |-> "raw"]

\* no WOFF 1.0 conversion is running
WoffIdle ==
    /\ woffPc = "idle" /\ woffSfnt = <<>> /\ woff = <<>>
    /\ woffOut = [ok |-> FALSE, v |-> <<>>, inflated |-> <<>>]

\* the module is loaded and woff2Decode has not been called concurrently
CallsIdle == knownTagIndex = <<>> /\ calls = <<>> /\ events = <<>>

\* no file conversion is running
FontIdle ==
    /\ origin = "none" /\ design = NoDesign /\ pc = "idle"
    /\ woff2 = <<>> /\ hdr = HeaderNull /\ brotliCalls = 0
    /\ sfnt = <<>> /\ source = "none" /\ prev = [kind |-> "none", v |-> <<>>]
    /\ error = "none"

VarintInit ==
    /\ FontIdle
    /\ WoffIdle
    /\ CallsIdle
    /\ vPc = "start"
    /\ vKind \in {"base128", "u255"}
    /\ vValue \in (IF vKind = "base128" THEN Base128Inputs ELSE U255Inputs)
    /\ vBytes = <<>>
    /\ vReader = "none"
    /\ vResult = Null(0)

WriteBase128 ==
    /\ vPc = "start" /\ vKind = "base128"
    /\ vBytes' = getBytes(writeBase128(NewWriteBuffer(65536), vValue))
    /\ vPc' = "written"
    /\ UNCHANGED <<vKind, vValue, vReader, vResult>>
    /\ UNCHANGED varsNotVarint

ReadBase128 ==
    /\ vPc = "written" /\ vKind = "base128"
    /\ vResult' = readBase128(vBytes, 0)
    /\ vReader' = "ReadBuffer"
    /\ vPc' = "read"
    /\ UNCHANGED <<vKind, vValue, vBytes>>
    /\ UNCHANGED varsNotVarint

Write255UShort ==
    /\ vPc = "start" /\ vKind = "u255"
    /\ vBytes' = getBytes(write255UShort(NewWriteBuffer(65536), vValue.lo))
    /\ vPc' = "written"
    /\ UNCHANGED <<vKind, vValue, vReader, vResult>>
    /\ UNCHANGED varsNotVarint

Read255UShort ==
    /\ vPc = "written" /\ vKind = "u255"
    /\ vResult' = read255UShort(vBytes, 0)
    /\ vReader' = "ReadBuffer"
    /\ vPc' = "read"
    /\ UNCHANGED <<vKind, vValue, vBytes>>
    /\ UNCHANGED varsNotVarint

BsRead255UShort ==
    /\ vPc = "written" /\ vKind = "u255"
    /\ vResult' = bsRead255UShort(vBytes, 0, Len(vBytes))
    /\ vReader' = "ByteStream"
    /\ vPc' = "read"
    /\ UNCHANGED <<vKind, vValue, vBytes>>
    /\ UNCHANGED varsNotVarint

VarintNext ==
    \/ WriteBase128
    \/ ReadBase128
    \/ Write255UShort
    \/ Read255UShort
    \/ BsRead255UShort

SpecVarint == VarintInit /\ [][VarintNext]_vars

(***************************************************************************)
(* C8: UIntBase128 round-trip: for every v in [0, 0xFFFFFFFF] readBase128  *)
(* of the bytes of writeBase128(v) returns v (not null, not negative) and  *)
(* consumes exactly the bytes written.                                     *)
(***************************************************************************)
C8_Base128RoundTrip ==
    (vPc = "read" /\ vKind = "base128") =>
        /\ vResult.ok
        /\ vResult.v >= 0
        /\ vValue.hi < 32768
        /\ vResult.v = ToInt32(vValue)
        /\ vResult.pos = Len(vBytes)

(***************************************************************************)
(* C9: 255UShort round-trip with shortest form: for every v in [0, 0xFFFF] *)
(* read255UShort and bsRead255UShort return v from the bytes written by    *)
(* write255UShort(v), which are 1 byte for v < 253, 2 bytes for            *)
(* 253 <= v < 762 and 3 bytes otherwise.                                   *)
(***************************************************************************)
C9_U255RoundTrip ==
    (vPc = "read" /\ vKind = "u255") =>
        /\ vResult.ok
        /\ vResult.v = vValue.lo
        /\ vResult.pos = Len(vBytes)
        /\ Len(vBytes) = (IF vValue.lo < 253 THEN 1
                          ELSE IF vValue.lo < 762 THEN 2 ELSE 3)

C9_Witness ==
    /\ vPc = "read" /\ vKind = "u255" /\ vReader = "ByteStream"
    /\ vValue.lo = 761 /\ vBytes = <<254, 255>> /\ vResult.v = 761


(***************************************************************************)
(* The file conversions.  A run starts from an SFNT file (woff2Encode is   *)
(* called first), from a WOFF2 file, or from arbitrary bytes (woff2Decode  *)
(* is called first), and alternates the two calls.  woff2Decode is async:  *)
(* it reads the header, awaits decompress, and resumes.                    *)
(***************************************************************************)
VarintIdle ==
    /\ vPc = "idle" /\ vKind = "none" /\ vValue = U32(0, 0) /\ vBytes = <<>>
    /\ vReader = "none" /\ vResult = Null(0)

\* the bytes of 'wOF2' and 0
SignatureBytes == {0, 119, 79, 70, 50}

\* byte sequences too short to hold a header
ShortInputs == UNION { [1 .. n -> SignatureBytes] : n \in 0 .. 4 }

\* the WOFF2 designs whose files are damaged in their first four bytes
DamagedDesigns == { d \in Woff2Designs : d.outline = "cff" /\ d.lsbMode = "xmin" }

FontInit ==
    /\ VarintIdle
    /\ WoffIdle
    /\ CallsIdle
    /\ hdr = HeaderNull /\ brotliCalls = 0 /\ error = "none"
    /\ prev = [kind |-> "none", v |-> <<>>]
    /\ \/ /\ origin = "sfnt"
          /\ design \in SfntDesigns
          /\ sfnt = GenSfnt(design) /\ source = "input"
          /\ woff2 = <<>> /\ pc = "sfnt"
       \/ /\ origin = "woff2"
          /\ design \in Woff2Designs
          /\ woff2 = GenWoff2(design) /\ pc = "woff2"
          /\ sfnt = <<>> /\ source = "none"
       \/ /\ origin = "bytes"
          /\ design = NoDesign
          /\ woff2 \in ShortInputs /\ pc = "woff2"
          /\ sfnt = <<>> /\ source = "none"
       \/ /\ origin = "bytes"
          /\ design \in DamagedDesigns
          /\ \E k \in 0 .. 3, b \in {0, 70} :
                woff2 = StoreAt(GenWoff2(design), k, <<b>>)
          /\ pc = "woff2"
          /\ sfnt = <<>> /\ source = "none"

\* woff2Encode(sfnt)
Encode ==
    /\ pc = "sfnt"
    /\ ~(source = "decoded" /\ prev.kind = "decoded")
    /\ \E r \in {woff2Encode(sfnt)} :
        /\ sfnt' = r.input
        /\ IF r.ok
           THEN woff2' = r.v /\ pc' = "woff2" /\ error' = error
           ELSE woff2' = woff2 /\ pc' = "failed" /\ error' = "encode"
        /\ knownTagIndex' = (IF r.ok /\ getUint16(r.v, 12) > 0
                             THEN KNOWN_TAGS ELSE knownTagIndex)
    /\ UNCHANGED <<origin, design, hdr, brotliCalls, source, prev>>
    /\ UNCHANGED varsNotFont

\* woff2Decode(woff2) up to the await of decompress
DecodeBegin ==
    /\ pc = "woff2"
    /\ hdr' = readHeader(woff2)
    /\ IF hdr'.ok
       THEN pc' = "brotli" /\ brotliCalls' = brotliCalls + 1 /\ error' = error
       ELSE pc' = "failed" /\ brotliCalls' = brotliCalls /\ error' = "header"
    /\ UNCHANGED <<origin, design, woff2, sfnt, source, prev, knownTagIndex>>
    /\ UNCHANGED varsNotFont

\* woff2Decode from the return of decompress to its own return
DecodeResume ==
    /\ pc = "brotli"
    /\ \E d \in {decompress(CompressedData(woff2, hdr))} :
       \E r \in {woff2DecodeFinish(hdr, d)} :
           IF r.ok
           THEN /\ sfnt' = r.v /\ source' = "decoded"
                /\ prev' = [kind |-> source, v |-> sfnt]
                /\ pc' = "sfnt" /\ error' = error
           ELSE /\ pc' = "failed"
                /\ error' = (IF ~d.ok \/ Len(d.v) # hdr.uncompressedSize
                             THEN "brotli" ELSE "reconstruct")
                /\ UNCHANGED <<sfnt, source, prev>>
    /\ UNCHANGED <<origin, design, woff2, hdr, brotliCalls, knownTagIndex>>
    /\ UNCHANGED varsNotFont

FontNext ==
    \/ Encode
    \/ DecodeBegin
    \/ DecodeResume

SpecFont == FontInit /\ [][FontNext]_vars

(***************************************************************************)
(* What the claims read from a file.  An SFNT file is read through its     *)
(* offset table and directory: numTables at 4, the entries of 16 bytes     *)
(* from 12 on (tag, checksum, offset, length).                             *)
(***************************************************************************)
DsigTag == 1146308935

SfntNumTables(f) == getUint16(f, 4)
SfntTag(f, i) == getUint32(f, 12 + 16 * (i - 1))
SfntTagSet(f) == { SfntTag(f, i) : i \in 1 .. SfntNumTables(f) }
SfntHas(f, tag) == tag \in SfntTagSet(f)
SfntIndex(f, tag) == CHOOSE i \in 1 .. SfntNumTables(f) : SfntTag(f, i) = tag
SfntOffset(f, tag) == getUint32(f, 12 + 16 * (SfntIndex(f, tag) - 1) + 8)
SfntLength(f, tag) == getUint32(f, 12 + 16 * (SfntIndex(f, tag) - 1) + 12)
SfntDsigCount(f) == Cardinality({ i \in 1 .. SfntNumTables(f) : SfntTag(f, i) = DsigTag })

SfntNumGlyphs(f) == getUint16(f, SfntOffset(f, TAG_MAXP) + 4)
SfntNumHMetrics(f) == getUint16(f, SfntOffset(f, TAG_HHEA) + 34)
SfntHeadFlags(f) == getUint16(f, SfntOffset(f, TAG_HEAD) + 16)

\* per glyph of the glyf table: kind, contour end points and absolute points
SfntOutlines(f) ==
    LET records == parseSfnt(f).records
        info == getGlyphInfo(f, records)
        glyfOffset == GetTable(records, TAG_GLYF).offset
    IN  [g \in 1 .. info.numGlyphs |->
            LET glyph == parseGlyph(f, glyfOffset, info.glyphOffsets[g],
                                    info.glyphOffsets[g + 1] - info.glyphOffsets[g])
            IN  IF glyph.ok /\ glyph.kind = "simple"
                THEN <<"simple", glyph.nContours, glyph.endPtsOfContours,
                       glyph.xCoordinates, glyph.yCoordinates>>
                ELSE IF glyph.ok THEN <<glyph.kind>> ELSE <<"broken">>]

\* the advance widths and left side bearings of hmtx, one pair or one bearing
\* per glyph
SfntMetrics(f) ==
    LET at == SfntOffset(f, TAG_HMTX)
        numHMetrics == SfntNumHMetrics(f)
    IN  [g \in 1 .. SfntNumGlyphs(f) |->
            IF g <= numHMetrics
            THEN <<getUint16(f, at + 4 * (g - 1)), getInt16(f, at + 4 * (g - 1) + 2)>>
            ELSE <<getInt16(f, at + 4 * numHMetrics + 2 * (g - 1 - numHMetrics))>>]

\* the sum of the high (half = 0) or low (half = 1) 16-bit halves of the n
\* words of f from word number first on
RECURSIVE HalfSum(_, _, _, _)
HalfSum(f, first, n, half) ==
    IF n = 0 THEN 0
    ELSE IF n = 1 THEN f[4 * first + 2 * half + 1] * 256 + f[4 * first + 2 * half + 2]
    ELSE HalfSum(f, first, n \div 2, half)
         + HalfSum(f, first + n \div 2, n - n \div 2, half)

\* (0xB1B0AFBA - S) mod 2^32 as four bytes, S the sum of the words of f
ExpectedAdjustment(f) ==
    LET lows == HalfSum(f, 0, Len(f) \div 4, 1)
        highs == HalfSum(f, 0, Len(f) \div 4, 0) + lows \div 65536
        lo == (44986 - lows) % 65536
        borrow == IF lows % 65536 > 44986 THEN 1 ELSE 0
        hi == (45488 - highs - borrow) % 65536
    IN  <<hi \div 256, hi % 256, lo \div 256, lo % 256>>

\* f with the four bytes at head + 8 set to zero
AdjustmentZeroed(f) ==
    LET at == SfntOffset(f, TAG_HEAD) + 8 IN
    SubSeq(f, 1, at) \o <<0, 0, 0, 0>> \o SubSeq(f, at + 5, Len(f))

\* sfnt is woff2Decode(woff2Encode(prev.v))
RoundTripped == pc = "sfnt" /\ source = "decoded" /\ prev.kind \in {"input", "decoded"}

\* woff2Encode(sfnt), or woff2Decode of its result, has thrown
RoundTripFailed == pc = "failed" /\ source \in {"input", "decoded"}

\* woff2 is woff2Encode(sfnt)
Encoded == pc \in {"woff2", "brotli"} /\ source \in {"input", "decoded"}

\* woff2Decode has been called on woff2
DecodeCalled ==
    \/ pc = "brotli"
    \/ pc = "failed" /\ error # "encode"
    \/ pc = "sfnt" /\ source = "decoded"

HasSignature(u8) == Len(u8) >= 4 /\ SubSeq(u8, 1, 4) = <<119, 79, 70, 50>>

(***************************************************************************)
(* C1: for every TrueType font T produced by woff2Decode,                  *)
(* woff2Decode(woff2Encode(T)) succeeds and its glyf table has the same    *)
(* number of glyphs and, glyph by glyph, the same contour end points and   *)
(* the same absolute point coordinates as T.                               *)
(***************************************************************************)
C1_GlyfRoundTrip ==
    /\ (RoundTripFailed /\ source = "decoded" /\ SfntHas(sfnt, TAG_GLYF)) => FALSE
    /\ (RoundTripped /\ prev.kind = "decoded" /\ SfntHas(prev.v, TAG_GLYF)) =>
            /\ SfntHas(sfnt, TAG_GLYF)
            /\ SfntOutlines(sfnt) = SfntOutlines(prev.v)

(***************************************************************************)
(* C2: for every valid WOFF2 file W,                                       *)
(* woff2Decode(woff2Encode(woff2Decode(W))) equals woff2Decode(W) byte for *)
(* byte.                                                                   *)
(***************************************************************************)
C2_DecodeIdempotent ==
    /\ ~(RoundTripFailed /\ source = "decoded")
    /\ (RoundTripped /\ prev.kind = "decoded") => sfnt = prev.v

(***************************************************************************)
(* C3: for every SFNT S without a DSIG table, woff2Decode(woff2Encode(S))  *)
(* succeeds and has the same number of tables, the same tags, the same     *)
(* numGlyphs in maxp and the same numberOfHMetrics in hhea as S.           *)
(***************************************************************************)
C3_TablesPreserved ==
    /\ RoundTripFailed => SfntHas(sfnt, DsigTag)
    /\ (RoundTripped /\ ~SfntHas(prev.v, DsigTag)) =>
            /\ SfntNumTables(sfnt) = SfntNumTables(prev.v)
            /\ SfntTagSet(sfnt) = SfntTagSet(prev.v)
            /\ Cardinality(SfntTagSet(sfnt)) = SfntNumTables(sfnt)
            /\ \A i \in 1 .. SfntNumTables(sfnt) - 1 : SfntTag(sfnt, i) < SfntTag(sfnt, i + 1)
            /\ SfntNumGlyphs(sfnt) = SfntNumGlyphs(prev.v)
            /\ SfntNumHMetrics(sfnt) = SfntNumHMetrics(prev.v)

(***************************************************************************)
(* C4: the WOFF2 file woff2Encode makes of an SFNT S has no DSIG entry in  *)
(* its directory and numTables equal to the number of tables of S that are *)
(* not DSIG; woff2Decode of it has no DSIG table.                          *)
(***************************************************************************)
C4_DsigDropped ==
    /\ Encoded =>
            LET h == readHeader(woff2) IN
            /\ h.ok
            /\ \A k \in 1 .. Len(h.tables) : h.tables[k].tag # DsigTag
            /\ Len(h.tables) = getUint16(woff2, 12)
            /\ getUint16(woff2, 12) = SfntNumTables(sfnt) - SfntDsigCount(sfnt)
    /\ RoundTripped => ~SfntHas(sfnt, DsigTag)

C4_Witness ==
    /\ RoundTripped /\ prev.kind = "input" /\ SfntHas(prev.v, DsigTag)
    /\ SfntNumTables(sfnt) = SfntNumTables(prev.v) - 1
    /\ getUint16(woff2, 12) = SfntNumTables(prev.v) - 1

(***************************************************************************)
(* C5: for an SFNT S with a head table, the head table of                  *)
(* woff2Decode(woff2Encode(S)) has bit 11 of its flags (the 16-bit word at *)
(* offset 16) set and every other bit of the flags as in S.                *)
(***************************************************************************)
C5_HeadFlagsBit11 ==
    (RoundTripped /\ SfntHas(prev.v, TAG_HEAD)) =>
        /\ SfntHas(sfnt, TAG_HEAD)
        /\ (SfntHeadFlags(sfnt) \div 2048) % 2 = 1
        /\ SfntHeadFlags(sfnt) % 2048 = SfntHeadFlags(prev.v) % 2048
        /\ SfntHeadFlags(sfnt) \div 4096 = SfntHeadFlags(prev.v) \div 4096

C5_Witness ==
    /\ RoundTripped /\ prev.kind = "input"
    /\ SfntHeadFlags(prev.v) = 5 /\ SfntHeadFlags(sfnt) = 2053

(***************************************************************************)
(* C6: in every file woff2Decode returns for a single font with a head     *)
(* table of 12 bytes or more, the 32-bit word at head + 8 is               *)
(* (0xB1B0AFBA - S) mod 2^32, S being the sum of all big-endian 32-bit     *)
(* words of the returned file with that word taken as zero.                *)
(***************************************************************************)
C6_ChecksumAdjustment ==
    (source = "decoded" /\ SfntHas(sfnt, TAG_HEAD) /\ SfntLength(sfnt, TAG_HEAD) >= 12) =>
        /\ Len(sfnt) % 4 = 0
        /\ SubSeq(sfnt, SfntOffset(sfnt, TAG_HEAD) + 9, SfntOffset(sfnt, TAG_HEAD) + 12)
                = ExpectedAdjustment(AdjustmentZeroed(sfnt))

C6_Witness ==
    /\ origin = "woff2" /\ source = "decoded" /\ prev.kind = "none" /\ pc = "sfnt"
    /\ SfntLength(sfnt, TAG_HEAD) = 54
    /\ SubSeq(sfnt, SfntOffset(sfnt, TAG_HEAD) + 9, SfntOffset(sfnt, TAG_HEAD) + 12)
            = ExpectedAdjustment(AdjustmentZeroed(sfnt))
    /\ SubSeq(sfnt, SfntOffset(sfnt, TAG_HEAD) + 9, SfntOffset(sfnt, TAG_HEAD) + 12)
            # <<0, 0, 0, 0>>

(***************************************************************************)
(* C7: the advance widths and left side bearings of hmtx survive           *)
(* transformHmtx followed by reconstructHmtx exactly, whatever             *)
(* numberOfHMetrics, whatever the glyphs and whatever the bearings, those  *)
(* of empty glyphs included.                                               *)
(***************************************************************************)
C7_HmtxRoundTrip ==
    (RoundTripped /\ SfntHas(prev.v, TAG_GLYF) /\ SfntHas(prev.v, TAG_HMTX)) =>
        /\ SfntHas(sfnt, TAG_HMTX)
        /\ SfntMetrics(sfnt) = SfntMetrics(prev.v)

(***************************************************************************)
(* C10: woff2Decode of a byte sequence whose first four bytes are not      *)
(* 0x774F4632, sequences shorter than four bytes included, fails on the    *)
(* header, before decompress is called and without returning a file.       *)
(***************************************************************************)
C10_BadSignature ==
    (DecodeCalled /\ ~HasSignature(woff2)) =>
        /\ pc = "failed" /\ error = "header"
        /\ brotliCalls = 0
        /\ sfnt = <<>> /\ source = "none"

C10_Witness ==
    /\ origin = "bytes" /\ woff2 = <<0>>
    /\ pc = "failed" /\ error = "header" /\ brotliCalls = 0 /\ sfnt = <<>>

(***************************************************************************)
(* Files at the edges of the two formats.  A WOFF2 file is built from a    *)
(* design and a damage [kind, at, v, shape]: kind names what differs from  *)
(* the file of the design, at the directory entry it is done to.           *)
(***************************************************************************)
\* a UIntBase128 field for n: well formed, with a leading 0x80, 0x80 alone,
\* of six bytes, wider than 32 bits, or a lone continuation byte
EdgeField(n, shape) ==
    CASE shape = "leading" -> <<128>> \o GenBase128(n)
      [] shape = "bare" -> <<128>>
      [] shape = "long" -> <<129, 129, 129, 129, 129, 1>>
      [] shape = "wide" -> <<144, 128, 128, 128, 0>>
      [] shape = "cut" -> <<129>>
      [] OTHER -> GenBase128(n)

\* what the reader of the directory takes for a transformed entry
EdgeTransformed(tag, version) ==
    IF tag = TAG_GLYF \/ tag = TAG_LOCA THEN version = 0 ELSE version # 0

\* the entries of the damaged file: a transformed loca that carries v bytes
\* of data, a transformed hmtx with the bits v added to its flag byte, or
\* an entry with the transform version v; with the shape
\* "decoder" the entry is laid out as the reader of the directory takes it
\* (origLength the length of its data where it is read as untransformed)
EdgeEntries(d, dmg) ==
    LET entries == GenWoff2Entries(d)
        Versioned(e) ==
            IF dmg.shape = "decoder"
            THEN [e EXCEPT !.version = dmg.v,
                           !.transformed = EdgeTransformed(e.tag, dmg.v),
                           !.origLength = IF EdgeTransformed(e.tag, dmg.v)
                                          THEN @ ELSE Len(e.data)]
            ELSE [e EXCEPT !.version = dmg.v]
    IN  [k \in 1 .. Len(entries) |->
            IF dmg.kind = "locaLength" /\ entries[k].tag = TAG_LOCA
            THEN [entries[k] EXCEPT !.data = [i \in 1 .. dmg.v |-> 0]]
            ELSE IF dmg.kind = "hmtxFlags" /\ entries[k].tag = TAG_HMTX
            THEN [entries[k] EXCEPT !.data = <<@[1] + dmg.v>> \o Tail(@)]
            ELSE IF dmg.kind = "version" /\ dmg.at = k THEN Versioned(entries[k])
            ELSE entries[k]]

\* the directory; after a field of shape "cut" the file ends
RECURSIVE GenEdgeDirectory(_, _, _)
GenEdgeDirectory(entries, k, dmg) ==
    IF k > Len(entries) THEN <<>>
    ELSE LET e == entries[k]
             idx == getKnownTagIndex(e.tag)
             hit == dmg.at = k
             start == <<idx + 64 * e.version>>
                      \o (IF idx = 63 THEN U32BE(e.tag) ELSE <<>>)
             orig == IF hit /\ dmg.kind = "origLength"
                     THEN EdgeField(e.origLength, dmg.shape)
                     ELSE GenBase128(e.origLength)
             trans == IF ~e.transformed THEN <<>>
                      ELSE IF hit /\ dmg.kind = "transformLength"
                      THEN EdgeField(Len(e.data), dmg.shape)
                      ELSE GenBase128(Len(e.data))
         IN  IF hit /\ dmg.shape = "cut" /\ dmg.kind = "origLength"
             THEN start \o orig
             ELSE IF hit /\ dmg.shape = "cut" /\ dmg.kind = "transformLength"
             THEN start \o orig \o trans
             ELSE start \o orig \o trans \o GenEdgeDirectory(entries, k + 1, dmg)

\* the table data compressed: one byte more or less than the directory
\* tells, or a stream the decompressor rejects
EdgePayload(stream, dmg) ==
    IF dmg.shape = "cut" THEN <<>>
    ELSE IF dmg.kind = "payload" /\ dmg.v > 0 THEN brotliEncode(stream \o <<0>>)
    ELSE IF dmg.kind = "payload"
    THEN brotliEncode(SubSeq(stream, 1, Len(stream) - 1))
    ELSE IF dmg.kind = "corrupt"
    THEN StoreAt(brotliEncode(stream), 0, <<(Len(stream) + 1) % 251>>)
    ELSE brotliEncode(stream)

GenEdgeWoff2(d, dmg) ==
    LET File(entries, directory, compressed) ==
            <<119, 79, 70, 50>> \o U32BE(GenFlavor(d))
            \o U32BE(48 + Len(directory) + Len(compressed)
                     + (IF dmg.kind = "length" THEN dmg.v ELSE 0))
            \o Int16BE(Len(entries)) \o Zeros(2)
            \o U32BE(12 + 16 * Len(entries) + GenPaddedTotal(entries, 1))
            \o U32BE(Len(compressed)) \o Int16BE(1) \o Zeros(2) \o Zeros(20)
            \o directory \o compressed
        Built(entries) ==
            File(entries, GenEdgeDirectory(entries, 1, dmg),
                 EdgePayload(GenWoff2Stream(entries, 1), dmg))
        Sized(file) ==
            IF dmg.kind = "truncated" THEN SubSeq(file, 1, Len(file) - 1)
            ELSE IF dmg.kind = "appended" THEN file \o <<0>>
            ELSE file
    IN  Sized(Built(EdgeEntries(d, dmg)))

Damage(kind, at, v, shape) == [kind |-> kind, at |-> at, v |-> v, shape |-> shape]

\* the number of directory entries of the files of EdgeWoff2Bases
MaxEntries == 7

EdgeDamages ==
    { Damage(k, 0, 0, "") : k \in {"none", "truncated", "appended", "corrupt"} }
    \cup { Damage(k, 0, v, "") : k \in {"length", "payload"}, v \in {-1, 1} }
    \cup { Damage("locaLength", 0, v, "") : v \in {1, 2} }
    \cup { Damage("hmtxFlags", 0, v, "") : v \in {4, 8, 16, 32, 64, 128, 252} }
    \cup { Damage("version", at, v, s) :
            at \in 1 .. MaxEntries, v \in 0 .. 3, s \in {"decoder", "kept"} }
    \cup { Damage(k, at, 0, s) :
            k \in {"origLength", "transformLength"}, at \in 1 .. MaxEntries,
            s \in {"leading", "bare", "long", "wide", "cut"} }

\* the damage changes the file of the design
EdgeApplies(d, dmg) ==
    LET entries == GenWoff2Entries(d)
        \* a transformed hmtx whose flag byte has its bits 2 to 7 clear
        HmtxPlain(es) ==
            \E k \in 1 .. Len(es) :
                /\ es[k].tag = TAG_HMTX /\ es[k].transformed
                /\ es[k].data[1] < 4
    IN
    CASE dmg.kind = "version" ->
            dmg.at <= Len(entries) /\ entries[dmg.at].version # dmg.v
      [] dmg.kind = "origLength" -> dmg.at <= Len(entries)
      [] dmg.kind = "transformLength" ->
            dmg.at <= Len(entries) /\ entries[dmg.at].transformed
      [] dmg.kind = "locaLength" -> d.outline = "glyf"
      [] dmg.kind = "hmtxFlags" -> HmtxPlain(entries)
      [] OTHER -> TRUE

EdgeWoff2Bases ==
    { d \in Woff2Designs :
        /\ d.glyphs = <<GLine, GEmpty>> /\ d.indexFormat = 0 /\ d.allMetrics
        /\ d.headFlags = 5 /\ d.lsbMode = "xmin" }


\* An SFNT file is built from a design and a damage: a table left out
\* ("missing", at the tag), a table cut to v bytes ("short"), a 'CFF ' table
\* added ("extra"), the first four bytes replaced ("flavor", v the
\* replacement), or the file cut to its first v bytes ("prefix").
EdgeSfntTables(d, dmg) ==
    LET tables == GenSfntTables(d)
        kept == SelectSeq(tables, LAMBDA t : ~(dmg.kind = "missing" /\ t.tag = dmg.at))
    IN  [k \in 1 .. Len(kept) |->
            IF dmg.kind = "short" /\ kept[k].tag = dmg.at
            THEN [kept[k] EXCEPT !.data = SubSeq(@, 1, dmg.v)]
            ELSE kept[k]]
        \o (IF dmg.kind = "extra"
            THEN <<[tag |-> TAG_CFF, data |-> <<1, 0, 4, 1, 0, 1, 1>>]>> ELSE <<>>)

GenEdgeSfnt(d, dmg) ==
    LET Sized(file) ==
            IF dmg.kind = "flavor" THEN StoreAt(file, 0, U32BE(dmg.v))
            ELSE IF dmg.kind = "prefix" THEN SubSeq(file, 1, dmg.v)
            ELSE file
    IN  Sized(GenSfntFile(GenFlavor(d), EdgeSfntTables(d, dmg)))

\* 'true', 'ttcf', 'wOF2' and 0
EdgeFlavors == {1953658213, 1953784678, 2001684018, 0}

EdgeSfntDamages ==
    { Damage("none", 0, 0, ""), Damage("extra", 0, 0, "") }
    \cup { Damage("missing", t, 0, "") :
            t \in {TAG_HEAD, TAG_HHEA, TAG_MAXP, TAG_HMTX, TAG_GLYF, TAG_LOCA, TAG_CFF} }
    \cup { Damage("short", TAG_MAXP, 5, ""), Damage("short", TAG_HHEA, 35, ""),
           Damage("short", TAG_HEAD, 53, ""), Damage("short", TAG_HEAD, 17, "") }
    \cup { Damage("flavor", 0, v, "") : v \in EdgeFlavors }
    \cup { Damage("prefix", 0, v, "") : v \in {0, 11, 12, 27, 43, 107} }

EdgeSfntBases ==
    { d \in SfntDesigns :
        /\ d.glyphs = <<GLine, GEmpty>> /\ d.indexFormat = 0 /\ d.align = 4
        /\ d.allMetrics /\ d.headFlags = 5 /\ d.lsbMode = "xmin" /\ d.extra = "none" }

EdgeInit ==
    /\ VarintIdle
    /\ WoffIdle
    /\ CallsIdle
    /\ hdr = HeaderNull /\ brotliCalls = 0 /\ error = "none"
    /\ prev = [kind |-> "none", v |-> <<>>]
    /\ \/ /\ origin = "woff2"
          /\ design \in [base : EdgeWoff2Bases, damage : EdgeDamages]
          /\ EdgeApplies(design.base, design.damage)
          /\ woff2 = GenEdgeWoff2(design.base, design.damage)
          /\ pc = "woff2"
          /\ sfnt = <<>> /\ source = "none"
       \/ /\ origin = "sfnt"
          /\ design \in [base : EdgeSfntBases, damage : EdgeSfntDamages]
          /\ sfnt = GenEdgeSfnt(design.base, design.damage) /\ source = "input"
          /\ design.damage.kind # "none" => sfnt # GenSfnt(design.base)
          /\ woff2 = <<>> /\ pc = "sfnt"

SpecEdge == EdgeInit /\ [][FontNext]_vars

(***************************************************************************)
(* What the claims read from a WOFF2 file and from a header.               *)
(***************************************************************************)
\* the length field of the header is not the length of the file
LengthDiffers(u8) ==
    Len(u8) < 12 \/ SubSeq(u8, 9, 12) # U32BE(Len(u8))

\* the sum of srcLength over the tables of a directory
RECURSIVE SumSrcLength(_, _)
SumSrcLength(tables, k) ==
    IF k = 0 THEN 0 ELSE tables[k].srcLength + SumSrcLength(tables, k - 1)

\* woff2Decode has returned or thrown
DecodeDone ==
    \/ pc = "failed" /\ error # "encode"
    \/ pc = "sfnt" /\ source = "decoded"

(***************************************************************************)
(* C11: woff2Decode of a file that starts with the signature fails on the  *)
(* header, before decompress is called, whenever the length field of the   *)
(* header differs from the length of the input; a valid file with its      *)
(* last byte removed is such an input.                                     *)
(***************************************************************************)
C11_LengthRejected ==
    /\ (DecodeCalled /\ HasSignature(woff2) /\ LengthDiffers(woff2)) =>
            /\ pc = "failed" /\ error = "header"
            /\ ~hdr.ok
    /\ (DecodeCalled /\ origin = "woff2" /\ design.damage.kind = "truncated") =>
            /\ woff2 = SubSeq(GenWoff2(design.base), 1, Len(GenWoff2(design.base)) - 1)
            /\ pc = "failed" /\ error = "header"

C11_Witness ==
    /\ origin = "woff2" /\ design.damage.kind = "truncated"
    /\ woff2 = SubSeq(GenWoff2(design.base), 1, Len(GenWoff2(design.base)) - 1)
    /\ pc = "failed" /\ error = "header" /\ brotliCalls = 0 /\ sfnt = <<>>

(***************************************************************************)
(* C12: when the header was read, woff2Decode fails after decompress       *)
(* whenever decompress throws or returns a payload whose length is not the *)
(* sum of srcLength over the directory (transformLength of a transformed   *)
(* entry, origLength of any other); it returns no file.                    *)
(***************************************************************************)
C12_PayloadSize ==
    (DecodeDone /\ hdr.ok) =>
        LET Sized(d) ==
                (~d.ok \/ Len(d.v) # SumSrcLength(hdr.tables, Len(hdr.tables))) =>
                    pc = "failed" /\ error = "brotli"
        IN  /\ Sized(decompress(CompressedData(woff2, hdr)))
            /\ \A k \in 1 .. Len(hdr.tables) :
                    hdr.tables[k].srcLength =
                        IF HasBit(hdr.tables[k].flags, WOFF2_FLAGS_TRANSFORM)
                        THEN hdr.tables[k].transformLength
                        ELSE hdr.tables[k].origLength

C12_Witness ==
    /\ origin = "woff2" /\ design.damage.kind = "payload" /\ design.damage.v = 1
    /\ hdr.ok /\ brotliCalls = 1
    /\ decompress(CompressedData(woff2, hdr)).ok
    /\ Len(decompress(CompressedData(woff2, hdr)).v) = hdr.uncompressedSize + 1
    /\ pc = "failed" /\ error = "brotli" /\ sfnt = <<>>

(***************************************************************************)
(* What the claims read from the directory of a WOFF2 file: per entry the  *)
(* tag, the transform version of the flag byte and whether a               *)
(* transformLength field follows origLength.                               *)
(***************************************************************************)
\* the position after the UIntBase128 field at pos
RECURSIVE SkipBase128(_, _)
SkipBase128(w, pos) ==
    IF pos >= Len(w) THEN pos
    ELSE IF w[pos + 1] < 128 THEN pos + 1
    ELSE SkipBase128(w, pos + 1)

\* the n entries from pos on, read with a transformLength field where the
\* version tells a transformed table; end is the position after the entry
RECURSIVE WalkDirectory(_, _, _)
WalkDirectory(w, pos, n) ==
    IF n = 0 \/ pos >= Len(w) THEN <<>>
    ELSE LET idx == w[pos + 1] % 64
             version == w[pos + 1] \div 64
             tag == IF idx = 63 THEN getUint32(w, pos + 1) ELSE KNOWN_TAGS[idx + 1]
             afterOrig == SkipBase128(w, pos + 1 + (IF idx = 63 THEN 4 ELSE 0))
             end == IF EdgeTransformed(tag, version)
                    THEN SkipBase128(w, afterOrig) ELSE afterOrig
         IN  <<[tag |-> tag, version |-> version, end |-> end]>>
             \o WalkDirectory(w, end, n - 1)

\* the tables woff2Encode needs: present and long enough
SfntRequired(f) ==
    /\ SfntHas(f, TAG_MAXP) /\ SfntLength(f, TAG_MAXP) >= 6
    /\ SfntHas(f, TAG_HHEA) /\ SfntLength(f, TAG_HHEA) >= 36
    /\ SfntHas(f, TAG_HEAD) /\ SfntLength(f, TAG_HEAD) >= 54

\* the glyf and loca tables of f are transformed by woff2Encode
SfntGlyfTransformed(f) ==
    /\ SfntHas(f, TAG_GLYF) /\ SfntHas(f, TAG_LOCA)
    /\ ~SfntHas(f, TAG_CFF) /\ ~SfntHas(f, TAG_CFF2)

\* woff2Decode was called on the file of the design, and sfnt is what it
\* returned or <<>>
FirstDecodeDone ==
    /\ origin = "woff2"
    /\ \/ pc = "failed" /\ source = "none"
       \/ pc = "sfnt" /\ source = "decoded" /\ prev.kind = "none"

(***************************************************************************)
(* C13: woff2Encode fails for an input whose flavor is neither 0x00010000  *)
(* nor 'OTTO', that is shorter than the 12-byte header or than its         *)
(* directory, that lacks maxp, hhea or head, or whose maxp, hhea or head   *)
(* is shorter than 6, 36 or 54 bytes, for TrueType and CFF flavors alike:  *)
(* a file woff2Encode has made comes from an input with none of these.     *)
(***************************************************************************)
C13_EncodeValidation ==
    (Encoded /\ source = "input") =>
        /\ Len(sfnt) >= 12
        /\ SubSeq(sfnt, 1, 4) \in {U32BE(SFNT_TTF), U32BE(SFNT_CFF)}
        /\ Len(sfnt) >= 12 + 16 * SfntNumTables(sfnt)
        /\ SfntRequired(sfnt)

(***************************************************************************)
(* C14: in the directory woff2Encode writes, a glyf or loca entry has      *)
(* transform version 0 exactly when the table is transformed and 3         *)
(* otherwise, an hmtx entry has version 0 or 1, every other entry has      *)
(* version 0, and the entries, read with a transformLength field wherever  *)
(* the decoder takes the entry as transformed, end where the compressed    *)
(* data begins.                                                            *)
(***************************************************************************)
C14_EncoderVersions ==
    (Encoded /\ source = "input") =>
        LET dir == WalkDirectory(woff2, 48, getUint16(woff2, 12)) IN
        /\ Len(dir) = getUint16(woff2, 12)
        /\ dir[Len(dir)].end = Len(woff2) - getUint32(woff2, 20)
        /\ \A k \in 1 .. Len(dir) :
                IF dir[k].tag = TAG_GLYF \/ dir[k].tag = TAG_LOCA
                THEN dir[k].version = (IF SfntGlyfTransformed(sfnt) THEN 0 ELSE 3)
                ELSE IF dir[k].tag = TAG_HMTX
                THEN dir[k].version \in {0, 1}
                        /\ (dir[k].version = 1 => SfntGlyfTransformed(sfnt))
                ELSE dir[k].version = 0

(***************************************************************************)
(* C15: woff2Decode takes a glyf or loca entry as transformed exactly when *)
(* its transform version is 0 and any other entry exactly when its version *)
(* is not 0, and returns no file for a directory with version 1 or 2 on    *)
(* glyf or loca, 2 or 3 on hmtx, or a nonzero version on another tag.      *)
(***************************************************************************)
C15_DecoderVersions ==
    /\ (DecodeDone /\ hdr.ok) =>
            \A k \in 1 .. Len(hdr.tables) :
                HasBit(hdr.tables[k].flags, WOFF2_FLAGS_TRANSFORM)
                    = EdgeTransformed(hdr.tables[k].tag, hdr.tables[k].flags % 4)
    /\ (FirstDecodeDone /\ design.damage.kind = "version") =>
            LET tag == GenWoff2Entries(design.base)[design.damage.at].tag
                allowed == IF tag = TAG_GLYF \/ tag = TAG_LOCA THEN {0, 3}
                           ELSE IF tag = TAG_HMTX THEN {0, 1} ELSE {0}
            IN  design.damage.v \notin allowed => pc = "failed"

(***************************************************************************)
(* C16: woff2Decode fails on the header whenever an origLength or a        *)
(* transformLength field of the directory is not a well-formed UIntBase128 *)
(* (first byte 0x80, more than five bytes, more than 32 bits, or running   *)
(* past the input), whatever the tag, a transformed loca included, and     *)
(* whenever a transformed loca has a transformLength that is not 0.        *)
(***************************************************************************)
C16_LengthFields ==
    (FirstDecodeDone
        /\ design.damage.kind \in {"origLength", "transformLength", "locaLength"}) =>
            pc = "failed" /\ error = "header"

(***************************************************************************)
(* C19: woff2Encode leaves the bytes of its input as they were, whether it *)
(* returns or throws (bit 11 of head.flags is set on a copy of the head    *)
(* table), and woff2Decode leaves the bytes of its input as they were.     *)
(***************************************************************************)
C19_InputsKept ==
    [][/\ pc = "sfnt" => sfnt' = sfnt
       /\ pc \in {"woff2", "brotli"} => woff2' = woff2]_vars

\* flags of the head table in the table data of the file woff2
Woff2HeadFlags ==
    LET tables == readHeader(woff2).tables
        Flags(data, head) == getUint16(data, head.srcOffset + 16)
    IN  Flags(decompress(CompressedData(woff2, readHeader(woff2))).v,
              tables[FindTag(tables, TAG_HEAD)])

C19_Witness ==
    /\ pc = "woff2" /\ source = "input"
    /\ SfntHeadFlags(sfnt) = 5
    /\ Woff2HeadFlags = 2053


(***************************************************************************)
(* The point-triplet codec on its own: writeTriplet emits one flag byte    *)
(* and 1 to 4 data bytes for a point, encodeTripletsToScratch reads a      *)
(* glyph of that one point back.                                           *)
(***************************************************************************)
\* magnitudes at the edges of the six cases of the table
TripletMagnitudes ==
    {0, 1, 16, 17, 32, 33, 64, 65, 255, 256, 257, 512, 513, 768, 769,
     1279, 1280, 4095, 4096, 65535}

TripletDeltas == TripletMagnitudes \cup {0 - m : m \in TripletMagnitudes}

TripletInputs == [on : BOOLEAN, dx : TripletDeltas, dy : TripletDeltas]

TripletInit ==
    /\ FontIdle
    /\ WoffIdle
    /\ CallsIdle
    /\ vPc = "start"
    /\ vKind = "triplet"
    /\ vValue \in TripletInputs
    /\ vBytes = <<>>
    /\ vReader = "none"
    /\ vResult = Null(0)

\* one call of writeTriplet on empty flag and glyph streams; the flag byte
\* is laid out before the data bytes
WriteTriplet ==
    /\ vPc = "start" /\ vKind = "triplet"
    /\ \E w \in {writeTriplet(NewWriteBuffer(65536), NewWriteBuffer(65536),
                              vValue.on, vValue.dx, vValue.dy)} :
            vBytes' = getBytes(w.flag) \o getBytes(w.glyph)
    /\ vPc' = "written"
    /\ UNCHANGED <<vKind, vValue, vReader, vResult>>
    /\ UNCHANGED varsNotVarint

\* encodeTripletsToScratch on a glyph of the one point written
ReadTriplet ==
    /\ vPc = "written" /\ vKind = "triplet"
    /\ vResult' = encodeTripletsToScratch(vBytes, 0, 1, 1, Len(vBytes), 1, FALSE)
    /\ vReader' = "scratch"
    /\ vPc' = "read"
    /\ UNCHANGED <<vKind, vValue, vBytes>>
    /\ UNCHANGED varsNotVarint

TripletNext ==
    \/ WriteTriplet
    \/ ReadTriplet

SpecTriplet == TripletInit /\ [][TripletNext]_vars

\* the flagLow range of the lowest-numbered case of the table that accepts
\* the magnitudes
TripletCase(absDx, absDy) ==
    IF absDx = 0 /\ absDy < 1280 THEN [lo |-> 0, hi |-> 9]
    ELSE IF absDy = 0 /\ absDx < 1280 THEN [lo |-> 10, hi |-> 19]
    ELSE IF absDx >= 1 /\ absDx <= 64 /\ absDy >= 1 /\ absDy <= 64
         THEN [lo |-> 20, hi |-> 83]
    ELSE IF absDx >= 1 /\ absDx <= 768 /\ absDy >= 1 /\ absDy <= 768
         THEN [lo |-> 84, hi |-> 119]
    ELSE IF absDx < 4096 /\ absDy < 4096 THEN [lo |-> 120, hi |-> 123]
    ELSE [lo |-> 124, hi |-> 127]

\* the bytes written come back as the point that was written
TripletSame ==
    /\ vResult.ok
    /\ HasBit(vResult.flagsOut[1], FLAG_ON_CURVE) = vValue.on
    /\ vResult.x = vValue.dx
    /\ vResult.y = vValue.dy

\* the flagLow written lies in the range of the case chosen by the table
TripletRanged ==
    LET c == TripletCase(Abs(vValue.dx), Abs(vValue.dy)) IN
    /\ vBytes[1] % 128 >= c.lo
    /\ vBytes[1] % 128 <= c.hi

(***************************************************************************)
(* C20: point-triplet codec round-trip: for every on-curve bit and every   *)
(* delta pair (dx, dy) with |dx| <= 65535 and |dy| <= 65535, the flag byte *)
(* and 1 to 4 data bytes emitted by writeTriplet are decoded by            *)
(* encodeTripletsToScratch to exactly the same on-curve bit, dx and dy,    *)
(* and the flagLow emitted lies in the range of the lowest-numbered case   *)
(* of the table that accepts the magnitudes.                               *)
(***************************************************************************)
C20_TripletRoundTrip ==
    (vPc = "read" /\ vKind = "triplet") =>
        /\ Len(vBytes) >= 2 /\ Len(vBytes) <= 5
        /\ TripletSame
        /\ TripletRanged


(***************************************************************************)
(* WOFF 1.0 (woff/encode.ts, woff/decode.ts).  zlib is a stand-in: the     *)
(* deflated form of a table is a header byte followed by the runs of the   *)
(* table as pairs <<count, byte>>, so tables of long runs get smaller and  *)
(* other tables do not; inflate undoes it and rejects other streams.       *)
(***************************************************************************)
zlibCompress(data) ==
    LET RECURSIVE RunEnd(_, _)
        \* the last index of the run that starts at start
        RunEnd(start, k) ==
            IF k < Len(data) /\ data[k + 1] = data[start] /\ k + 1 - start < 255
            THEN RunEnd(start, k + 1) ELSE k
        RECURSIVE Runs(_)
        Runs(k) ==
            IF k > Len(data) THEN <<>>
            ELSE LET e == RunEnd(k, k) IN <<e - k + 1, data[k]>> \o Runs(e + 1)
    IN  <<120>> \o Runs(1)

\* [ok, v]: ok = FALSE is the exception of a stream that is not deflate data
zlibDecompress(data) ==
    LET RECURSIVE Expand(_)
        Expand(k) ==
            IF k > Len(data) THEN <<>>
            ELSE [i \in 1 .. data[k] |-> data[k + 1]] \o Expand(k + 2)
    IN  IF Len(data) = 0 \/ Len(data) % 2 = 0 THEN [ok |-> FALSE, v |-> <<>>]
        ELSE IF data[1] # 120 THEN [ok |-> FALSE, v |-> <<>>]
        ELSE IF \E k \in 1 .. Len(data) \div 2 : data[2 * k] = 0
             THEN [ok |-> FALSE, v |-> <<>>]
        ELSE [ok |-> TRUE, v |-> Expand(2)]

\* woffEncode with `comp.length <= raw.length` as the test for storing the
\* deflated form
woffEncodeLoose(input) ==
    LET numTables == getUint16(input, 4)
        Table(i) ==
            [tag |-> getUint32(input, 12 + 16 * i),
             checksum |-> WordAt(input, 12 + 16 * i + 4),
             offset |-> getUint32(input, 12 + 16 * i + 8),
             length |-> getUint32(input, 12 + 16 * i + 12)]
        Smaller(raw, comp, t) ==
            IF Len(comp) <= Len(raw)
            THEN [data |-> comp, compLength |-> Len(comp), origLength |-> t.length]
            ELSE [data |-> raw, compLength |-> t.length, origLength |-> t.length]
        Deflated(raw, t) == Smaller(raw, zlibCompress(raw), t)
        Compressed(t) == Deflated(SubArray(input, t.offset, t.offset + t.length), t)
        RECURSIVE SumPad4(_, _)
        SumPad4(lengths, k) ==
            IF k > Len(lengths) THEN 0 ELSE pad4(lengths[k]) + SumPad4(lengths, k + 1)
        RECURSIVE Entries(_, _, _, _)
        Entries(tables, compressed, k, dataOffset) ==
            IF k > Len(tables) THEN <<>>
            ELSE U32BE(tables[k].tag) \o U32BE(dataOffset)
                 \o U32BE(compressed[k].compLength) \o U32BE(compressed[k].origLength)
                 \o PairBE(tables[k].checksum)
                 \o Entries(tables, compressed, k + 1,
                            dataOffset + pad4(compressed[k].compLength))
        RECURSIVE Data(_, _)
        Data(compressed, k) ==
            IF k > Len(compressed) THEN <<>>
            ELSE compressed[k].data
                 \o Zeros(pad4(compressed[k].compLength) - Len(compressed[k].data))
                 \o Data(compressed, k + 1)
        Header(tables, compressed) ==
            PairBE(WOFF_SIGNATURE) \o PairBE(WordAt(input, 0))
            \o U32BE(44 + 20 * numTables
                     + SumPad4([k \in 1 .. numTables |-> compressed[k].compLength], 1))
            \o Int16BE(numTables) \o Int16BE(0)
            \o U32BE(12 + 16 * numTables
                     + SumPad4([k \in 1 .. numTables |-> tables[k].length], 1))
            \o Zeros(24)
        Output(tables, compressed) ==
            Header(tables, compressed)
            \o Entries(tables, compressed, 1, 44 + 20 * numTables)
            \o Data(compressed, 1)
        Read(tables) ==
            Output(tables, [k \in 1 .. numTables |-> Compressed(tables[k])])
    IN  IF ~InView(input, 0, 4) \/ ~InView(input, 4, 2) THEN [ok |-> FALSE, v |-> <<>>]
        ELSE IF numTables > 0 /\ ~InView(input, 0, 12 + 16 * numTables)
             THEN [ok |-> FALSE, v |-> <<>>]
        ELSE [ok |-> TRUE, v |-> Read([k \in 1 .. numTables |-> Table(k - 1)])]

\* woffEncode(data): [ok, v]; ok = FALSE is the RangeError of a read past
\* the input
woffEncode(input) ==
    LET numTables == getUint16(input, 4)
        Table(i) ==
            [tag |-> getUint32(input, 12 + 16 * i),
             checksum |-> WordAt(input, 12 + 16 * i + 4),
             offset |-> getUint32(input, 12 + 16 * i + 8),
             length |-> getUint32(input, 12 + 16 * i + 12)]
        \* use compressed only if smaller
        Smaller(raw, comp, t) ==
            IF Len(comp) < Len(raw)
            THEN [data |-> comp, compLength |-> Len(comp), origLength |-> t.length]
            ELSE [data |-> raw, compLength |-> t.length, origLength |-> t.length]
        Deflated(raw, t) == Smaller(raw, zlibCompress(raw), t)
        Compressed(t) == Deflated(SubArray(input, t.offset, t.offset + t.length), t)
        RECURSIVE SumPad4(_, _)
        SumPad4(lengths, k) ==
            IF k > Len(lengths) THEN 0 ELSE pad4(lengths[k]) + SumPad4(lengths, k + 1)
        \* the directory entries, dataOffset running over the padded data
        RECURSIVE Entries(_, _, _, _)
        Entries(tables, compressed, k, dataOffset) ==
            IF k > Len(tables) THEN <<>>
            ELSE U32BE(tables[k].tag) \o U32BE(dataOffset)
                 \o U32BE(compressed[k].compLength) \o U32BE(compressed[k].origLength)
                 \o PairBE(tables[k].checksum)
                 \o Entries(tables, compressed, k + 1,
                            dataOffset + pad4(compressed[k].compLength))
        \* output.set(c.data, dataOffset) into the zeroed output
        RECURSIVE Data(_, _)
        Data(compressed, k) ==
            IF k > Len(compressed) THEN <<>>
            ELSE compressed[k].data
                 \o Zeros(pad4(compressed[k].compLength) - Len(compressed[k].data))
                 \o Data(compressed, k + 1)
        \* signature, flavor, woffLength, numTables, reserved, totalSfntSize,
        \* version, metadata and private block
        Header(tables, compressed) ==
            PairBE(WOFF_SIGNATURE) \o PairBE(WordAt(input, 0))
            \o U32BE(44 + 20 * numTables
                     + SumPad4([k \in 1 .. numTables |-> compressed[k].compLength], 1))
            \o Int16BE(numTables) \o Int16BE(0)
            \o U32BE(12 + 16 * numTables
                     + SumPad4([k \in 1 .. numTables |-> tables[k].length], 1))
            \o Zeros(24)
        Output(tables, compressed) ==
            Header(tables, compressed)
            \o Entries(tables, compressed, 1, 44 + 20 * numTables)
            \o Data(compressed, 1)
        Read(tables) ==
            Output(tables, [k \in 1 .. numTables |-> Compressed(tables[k])])
    IN  IF ~InView(input, 0, 4) \/ ~InView(input, 4, 2) THEN [ok |-> FALSE, v |-> <<>>]
        ELSE IF numTables > 0 /\ ~InView(input, 0, 12 + 16 * numTables)
             THEN [ok |-> FALSE, v |-> <<>>]
        ELSE [ok |-> TRUE, v |-> Read([k \in 1 .. numTables |-> Table(k - 1)])]

\* woffDecode(data): [ok, v, inflated]; inflated[i] tells whether decompress
\* was called for the i-th table in tag order; ok = FALSE is an exception
woffDecode(input) ==
    LET fail == [ok |-> FALSE, v |-> <<>>, inflated |-> <<>>]
        numTables == getUint16(input, 12)
        \* 2 ** Math.floor(Math.log2(numTables)); setUint16 stores -Infinity as 0
        Header(flavor, log2) ==
            LET searchRange == IF numTables = 0 THEN 0 ELSE Pow2(log2) * 16 IN
            PairBE(flavor) \o Int16BE(numTables) \o Int16BE(ToU16(searchRange))
            \o Int16BE(IF numTables = 0 THEN 0 ELSE log2)
            \o Int16BE(ToU16(numTables * 16 - searchRange))
        Entry(i) ==
            [tag |-> getUint32(input, 44 + 20 * i),
             offset |-> getUint32(input, 44 + 20 * i + 4),
             compLength |-> getUint32(input, 44 + 20 * i + 8),
             origLength |-> getUint32(input, 44 + 20 * i + 12),
             checksum |-> WordAt(input, 44 + 20 * i + 16)]
        Inflated(table, r) ==
            IF ~r.ok \/ Len(r.v) # table.origLength
            THEN [ok |-> FALSE, v |-> <<>>, called |-> TRUE]
            ELSE [ok |-> TRUE, v |-> r.v, called |-> TRUE]
        Decompressed(table, tableData) ==
            IF table.compLength = table.origLength
            THEN [ok |-> TRUE, v |-> tableData, called |-> FALSE]
            ELSE Inflated(table, zlibDecompress(tableData))
        \* the directory entry and the data of each table stored in turn
        RECURSIVE Write(_, _, _, _, _)
        Write(tables, decompressed, k, dataOffset, o) ==
            IF k > Len(tables) THEN [o EXCEPT !.out = SubArray(@, 0, dataOffset)]
            ELSE Write(tables, decompressed, k + 1,
                       dataOffset + tables[k].origLength
                           + ((4 - (tables[k].origLength % 4)) % 4),
                       SetAt(SetAt(o, 12 + 16 * (k - 1),
                                   U32BE(tables[k].tag) \o PairBE(tables[k].checksum)
                                   \o U32BE(dataOffset) \o U32BE(tables[k].origLength)),
                             dataOffset, decompressed[k].v))
        Returned(o, decompressed) ==
            IF o.ok THEN [ok |-> TRUE, v |-> o.out,
                          inflated |-> [k \in 1 .. numTables |-> decompressed[k].called]]
            ELSE fail
        Stored(tables, decompressed, o) ==
            IF \E k \in 1 .. numTables : ~decompressed[k].ok THEN fail
            ELSE Returned(Write(tables, decompressed, 1, 12 + numTables * 16, o),
                          decompressed)
        Sorted(tables, o) ==
            Stored(tables,
                   [k \in 1 .. numTables |->
                        Decompressed(tables[k],
                            SubArray(input, tables[k].offset,
                                     tables[k].offset + tables[k].compLength))],
                   o)
        Begun(o) ==
            IF ~o.ok THEN fail
            ELSE IF numTables > 0 /\ ~InView(input, 0, 44 + 20 * numTables) THEN fail
            ELSE Sorted(SortByTag([k \in 1 .. numTables |-> Entry(k - 1)]), o)
    IN  IF ~InView(input, 0, 4) THEN fail
        ELSE IF WordAt(input, 0) # WOFF_SIGNATURE THEN fail
        ELSE IF ~InView(input, 16, 4) THEN fail
        ELSE Begun(SetAt([ok |-> TRUE, out |-> Zeros(getUint32(input, 16))], 0,
                         Header(WordAt(input, 4), MaxPow2(numTables, 0))))

\* table data whose deflated form is longer, as long, or shorter
WoffPatterns ==
    {<<>>, <<5, 5, 5>>, <<7, 7, 7, 7, 7, 7>>, <<1, 2, 3, 4, 5>>,
     <<9, 9, 9, 9, 9, 9, 9, 9, 3>>, <<120, 2, 4>>}

WoffDesigns ==
    [flavor : {SFNT_TTF, SFNT_CFF}, numGlyphs : {0, 3},
     layout : {"packed", "reversed", "gap"},
     hhea : WoffPatterns, hmtx : WoffPatterns]

\* an SFNT file with its directory in tag order; the table data lie in
\* directory order, in reverse order, or after a gap of four bytes
WoffSfnt(d) ==
    LET Laid(tbls, order, start) ==
            LET placed == GenOffsets(order, 1, start) IN
            writeOffsetTable(ToPair(d.flavor), Len(tbls))
            \o GenDirectory(tbls,
                   [k \in 1 .. Len(tbls) |->
                        IF d.layout = "reversed" THEN placed[Len(tbls) + 1 - k]
                        ELSE placed[k]], 1)
            \o Zeros(start - (12 + 16 * Len(tbls)))
            \o GenBody(order, 1)
        Ordered(tbls) ==
            Laid(tbls,
                 IF d.layout = "reversed"
                 THEN [k \in 1 .. Len(tbls) |-> tbls[Len(tbls) + 1 - k]] ELSE tbls,
                 12 + 16 * Len(tbls) + (IF d.layout = "gap" THEN 4 ELSE 0))
    IN  Ordered(SortByTag(<<[tag |-> TAG_MAXP,
                             data |-> <<0, 0, 80, 0>> \o Int16BE(d.numGlyphs)],
                            [tag |-> TAG_HHEA, data |-> d.hhea],
                            [tag |-> TAG_HMTX, data |-> d.hmtx]>>))

\* inputs too short to hold an offset table and its directory
WoffShortInputs == {<<>>, <<0, 1, 0, 0, 0>>, <<0, 1, 0, 0, 0, 1>>}

WoffInit ==
    /\ VarintIdle
    /\ FontIdle
    /\ CallsIdle
    /\ woffPc = "sfnt"
    /\ woffSfnt \in {WoffSfnt(d) : d \in WoffDesigns} \cup WoffShortInputs
    /\ woff = <<>>
    /\ woffOut = [ok |-> FALSE, v |-> <<>>, inflated |-> <<>>]

\* woffEncode(woffSfnt)
WoffEncode ==
    /\ woffPc = "sfnt"
    /\ \E r \in {woffEncode(woffSfnt)} :
        IF r.ok THEN woff' = r.v /\ woffPc' = "woff"
        ELSE woff' = woff /\ woffPc' = "failed"
    /\ UNCHANGED <<woffSfnt, woffOut>>
    /\ UNCHANGED <<varsVarint, varsFont, varsCalls, knownTagIndex>>

\* woffDecode(woff)
WoffDecode ==
    /\ woffPc = "woff"
    /\ woffOut' = woffDecode(woff)
    /\ woffPc' = (IF woffOut'.ok THEN "decoded" ELSE "failed")
    /\ UNCHANGED <<woffSfnt, woff>>
    /\ UNCHANGED <<varsVarint, varsFont, varsCalls, knownTagIndex>>

WoffNext ==
    \/ WoffEncode
    \/ WoffDecode

SpecWoff == WoffInit /\ [][WoffNext]_vars

\* the i-th directory entry of an SFNT file and the bytes of its table
SfntEntry(f, i) ==
    LET at == 12 + 16 * (i - 1) IN
    [tag |-> SubArray(f, at, at + 4), checksum |-> SubArray(f, at + 4, at + 8),
     length |-> getUint32(f, at + 12),
     bytes |-> SubArray(f, getUint32(f, at + 8),
                        getUint32(f, at + 8) + getUint32(f, at + 12))]

\* the i-th directory entry of a WOFF file and the bytes stored for it
WoffEntry(w, i) ==
    LET at == 44 + 20 * (i - 1) IN
    [compLength |-> getUint32(w, at + 8), origLength |-> getUint32(w, at + 12),
     stored |-> SubArray(w, getUint32(w, at + 4),
                         getUint32(w, at + 4) + getUint32(w, at + 8))]

\* woffEncode and woffDecode have run on an SFNT file
WoffDone == woffPc \in {"decoded", "failed"} /\ woffSfnt \notin WoffShortInputs

\* the decoded file has the flavor, the table count, numGlyphs and the
\* tables of the file given
WoffSame ==
    /\ woffOut.ok
    /\ SubArray(woffOut.v, 0, 4) = SubArray(woffSfnt, 0, 4)
    /\ SfntNumTables(woffOut.v) = SfntNumTables(woffSfnt)
    /\ SfntNumGlyphs(woffOut.v) = SfntNumGlyphs(woffSfnt)
    /\ \A i \in 1 .. SfntNumTables(woffSfnt) :
            SfntEntry(woffOut.v, i) = SfntEntry(woffSfnt, i)

\* a table is stored as it is exactly when deflate does not make it smaller
WoffStored ==
    \A i \in 1 .. SfntNumTables(woffSfnt) :
        LET Stored(raw, comp, e) ==
                IF Len(comp) < Len(raw)
                THEN e.stored = comp /\ e.compLength = Len(comp)
                     /\ e.origLength = Len(raw)
                ELSE e.stored = raw /\ e.compLength = Len(raw)
                     /\ e.origLength = Len(raw)
            Deflated(raw) == Stored(raw, zlibCompress(raw), WoffEntry(woff, i))
        IN  Deflated(SfntEntry(woffSfnt, i).bytes)

\* the decoder inflates exactly the tables whose two lengths differ
WoffInflated ==
    /\ Len(woffOut.inflated) = SfntNumTables(woffSfnt)
    /\ \A i \in 1 .. SfntNumTables(woffSfnt) :
            woffOut.inflated[i]
                = (WoffEntry(woff, i).compLength # WoffEntry(woff, i).origLength)

(***************************************************************************)
(* C17: WOFF 1.0 round-trip: for every SFNT S whose directory is sorted by *)
(* tag, woffDecode(woffEncode(S)) has the same flavor, the same number of  *)
(* tables and the same numGlyphs as S, and each table has the same tag,    *)
(* checksum, length and bytes as in S; a table is stored uncompressed      *)
(* exactly when its deflated form is not strictly smaller, and the decoder *)
(* inflates a table exactly when compLength differs from origLength.       *)
(***************************************************************************)
C17_WoffRoundTrip ==
    WoffDone => WoffSame /\ WoffStored /\ WoffInflated

C17_Witness ==
    /\ woffPc = "decoded"
    /\ woffOut.inflated = <<FALSE, TRUE, FALSE>>
    /\ SfntEntry(woffSfnt, 1).bytes = <<5, 5, 5>>
    /\ SfntEntry(woffOut.v, 2).bytes = <<9, 9, 9, 9, 9, 9, 9, 9, 3>>
    /\ SfntNumGlyphs(woffOut.v) = 3
    /\ Len(woffOut.v) # Len(woffSfnt)


(***************************************************************************)
(* Concurrent calls.  Two woff2Decode calls run on one thread: each reads  *)
(* its header, suspends at the await of decompress and resumes later, in   *)
(* any order, while a run of woff2Encode and woff2Decode calls (the file   *)
(* conversions above) goes on around them.  What a call keeps across the   *)
(* await (input, header) belongs to the call; the module keeps only the    *)
(* known-tag index, which woff2Encode builds on its first use.             *)
(***************************************************************************)
NewCall(input) ==
    [pc |-> "new", input |-> input, header |-> HeaderNull,
     out |-> [ok |-> FALSE, v |-> <<>>]]

\* the fonts whose files the two calls are given
CallDesigns ==
    { d \in Woff2Designs :
        /\ d.glyphs = <<GLine, GDiag>> /\ d.indexFormat = 0 /\ d.allMetrics
        /\ d.headFlags = 5 /\ d.lsbMode = "xmin" /\ d.extra = "none"
        /\ d.hmtxForm = (IF d.outline = "glyf" THEN "transformed" ELSE "raw") }

\* two WOFF2 files, a file with a bad signature and a file whose Brotli
\* stream is corrupt
CallInputs ==
    LET \* the file with the first byte of its compressed data, size bytes
        \* before the end, replaced by a length byte that does not fit
        Corrupt(file, size) == StoreAt(file, Len(file) - size, <<size % 251>>)
        Files(d, file) ==
            IF d.outline = "cff" THEN {file, StoreAt(file, 0, <<0>>)}
            ELSE {file, Corrupt(file, getUint32(file, 20))}
    IN  UNION { Files(d, GenWoff2(d)) : d \in CallDesigns }

\* the fonts of the conversions that run before and around the calls
CallHistoryDesigns ==
    { d \in SfntDesigns :
        /\ d.glyphs = <<GLine, GEmpty>> /\ d.indexFormat = 0 /\ d.align = 4
        /\ d.lsbMode = "xmin" /\ d.allMetrics /\ d.headFlags = 5
        /\ d.extra = "none" }

CallsInit ==
    /\ VarintIdle
    /\ WoffIdle
    /\ hdr = HeaderNull /\ brotliCalls = 0 /\ error = "none"
    /\ prev = [kind |-> "none", v |-> <<>>]
    /\ origin = "sfnt"
    /\ design \in CallHistoryDesigns
    /\ sfnt = GenSfnt(design) /\ source = "input"
    /\ woff2 = <<>> /\ pc = "sfnt"
    /\ knownTagIndex = <<>>
    /\ \E inputs \in {CallInputs} :
            calls \in { <<NewCall(a), NewCall(b)>> : a \in inputs, b \in inputs }
    /\ events = <<>>

\* the call that began last
LastBegun ==
    LET begun == { k \in 1 .. Len(events) : events[k][2] = "begin" } IN
    events[CHOOSE k \in begun : \A j \in begun : j <= k][1]

\* woff2Decode(calls[c].input) up to the await of decompress
CallBegin(c) ==
    /\ calls[c].pc = "new"
    /\ \E h \in {readHeader(calls[c].input)} :
        calls' = [calls EXCEPT ![c] =
                    IF h.ok THEN [@ EXCEPT !.pc = "brotli", !.header = h]
                    ELSE [@ EXCEPT !.pc = "failed"]]
    /\ events' = Append(events, <<c, "begin">>)
    /\ UNCHANGED <<varsVarint, varsFont, varsWoff, knownTagIndex>>

\* the resumption of a call whose header is kept in one place for all
\* calls: it finds the header of the call that began last, or none
CallResumeShared(c) ==
    /\ calls[c].pc = "brotli"
    /\ \E h \in {calls[LastBegun].header} :
        IF ~h.ok
        THEN calls' = [calls EXCEPT ![c] = [@ EXCEPT !.pc = "failed"]]
        ELSE \E d \in {decompress(CompressedData(calls[c].input, h))} :
             \E r \in {woff2DecodeFinish(h, d)} :
                calls' = [calls EXCEPT ![c] =
                            [@ EXCEPT !.pc = (IF r.ok THEN "done" ELSE "failed"),
                                      !.out = r]]
    /\ events' = Append(events, <<c, "resume">>)
    /\ UNCHANGED <<varsVarint, varsFont, varsWoff, knownTagIndex>>

\* woff2Decode(calls[c].input) from the return of decompress to its own
\* return, with the input and the header of this call
CallResume(c) ==
    /\ calls[c].pc = "brotli"
    /\ \E h \in {calls[c].header} :
       \E d \in {decompress(CompressedData(calls[c].input, h))} :
       \E r \in {woff2DecodeFinish(h, d)} :
        calls' = [calls EXCEPT ![c] =
                    [@ EXCEPT !.pc = (IF r.ok THEN "done" ELSE "failed"), !.out = r]]
    /\ events' = Append(events, <<c, "resume">>)
    /\ UNCHANGED <<varsVarint, varsFont, varsWoff, knownTagIndex>>

CallsNext ==
    \/ Encode
    \/ DecodeBegin
    \/ DecodeResume
    \/ \E c \in 1 .. 2 : CallBegin(c)
    \/ \E c \in 1 .. 2 : CallResume(c)

SpecCalls == CallsInit /\ [][CallsNext]_vars

\* what woff2Decode returns for an input when it runs alone
DecodedAlone(input) ==
    LET Resumed(h) ==
            IF ~h.ok THEN [ok |-> FALSE, v |-> <<>>]
            ELSE woff2DecodeFinish(h, decompress(CompressedData(input, h)))
    IN  Resumed(readHeader(input))

GlyfKinds == {GEmpty, GLine, GBoxed, GComp}

GlyfLists ==
    { <<a>> : a \in GlyfKinds }
    \cup { <<a, b>> : a \in GlyfKinds, b \in GlyfKinds }
    \cup { <<a, b, c>> : a \in GlyfKinds, b \in {GEmpty, GComp}, c \in GlyfKinds }
    \cup { <<GLine, GEmpty, GEmpty, GEmpty, GEmpty, GEmpty, GEmpty, GEmpty, a, b>> :
            a \in GlyfKinds, b \in {GEmpty, GComp} }

\* the table with the bbox bit of glyph g changed; g = -1 changes nothing
FlipBboxBit(table, g) ==
    LET Flipped(at, mask) ==
            StoreAt(table, at,
                    <<IF HasBit(table[at + 1], mask) THEN table[at + 1] - mask
                      ELSE table[at + 1] + mask>>)
    IN  IF g < 0 THEN table
        ELSE Flipped(StreamEnd(table, 0, Len(table), 5) + (g \div 8),
                     128 \div Pow2(g % 8))

GlyfInputs ==
    { d \in [glyphs : GlyfLists, indexFormat : {0, 1}, flip : -1 .. 9] :
        d.flip < Len(d.glyphs) }

GlyfInit ==
    /\ FontIdle
    /\ WoffIdle
    /\ CallsIdle
    /\ vPc = "written"
    /\ vKind = "glyf"
    /\ vValue \in GlyfInputs
    /\ vBytes = FlipBboxBit(GenTransformedGlyf(vValue.glyphs, vValue.indexFormat),
                            vValue.flip)
    /\ vReader = "none"
    /\ vResult = Null(0)

\* reconstructGlyf on the table, its declared origLength the size of the
\* glyf table the glyphs make
ReconstructGlyf ==
    /\ vPc = "written" /\ vKind = "glyf"
    /\ vResult' = reconstructGlyf(vBytes, 0, Len(vBytes),
                                  Len(GenRawGlyf(vValue.glyphs, 4, 1)))
    /\ vReader' = "reconstructGlyf"
    /\ vPc' = "read"
    /\ UNCHANGED <<vKind, vValue, vBytes>>
    /\ UNCHANGED varsNotVarint

GlyfNext == ReconstructGlyf

SpecGlyf == GlyfInit /\ [][GlyfNext]_vars

\* what a transformed glyf table says of glyph g: its nContours field and
\* its bit of the bbox bitmap
GlyfNContours(table, g) == getInt16(table, 36 + 2 * g)

GlyfBboxBit(table, g) ==
    HasBit(table[StreamEnd(table, 0, Len(table), 5) + (g \div 8) + 1],
           128 \div Pow2(g % 8))

\* loca[g] of a reconstructed pair of tables, read per indexFormat
LocaAt(r, g) ==
    IF r.indexFormat = 0 THEN getUint16(r.locaData, 2 * g) * 2
    ELSE getUint32(r.locaData, 4 * g)

GlyfDone == vPc = "read" /\ vKind = "glyf"

(***************************************************************************)
(* C21: bbox-bit validation on decode: for every glyph id g,               *)
(* reconstructGlyf fails if nContours is 0 and the bbox bitmap bit of g is *)
(* set, and fails if nContours is -1 and that bit is clear; an accepted    *)
(* empty glyph emits no bytes, so that loca[g+1] equals loca[g].           *)
(***************************************************************************)
C21_BboxBits ==
    GlyfDone =>
        \A g \in 0 .. getUint16(vBytes, 4) - 1 :
            /\ (GlyfNContours(vBytes, g) = 0 /\ GlyfBboxBit(vBytes, g)) => ~vResult.ok
            /\ (GlyfNContours(vBytes, g) = (-1) /\ ~GlyfBboxBit(vBytes, g)) => ~vResult.ok
            /\ (vResult.ok /\ GlyfNContours(vBytes, g) = 0) =>
                    LocaAt(vResult, g + 1) = LocaAt(vResult, g)

C21_Witness ==
    /\ GlyfDone
    /\ vValue.flip = 9
    /\ GlyfNContours(vBytes, 9) = 0 /\ GlyfBboxBit(vBytes, 9)
    /\ GlyfNContours(vBytes, 8) = (-1) /\ GlyfBboxBit(vBytes, 8)
    /\ ~vResult.ok


(***************************************************************************)
(* reconstructGlyf followed by a reader of its loca table.  The glyphs are *)
(* named here, so that tables longer than a short loca entry can address  *)
(* are among the inputs: the state keeps the names, the loca table written *)
(* and what a reader of that loca table finds in the glyf table.           *)
(***************************************************************************)
GlyphNamed(name) ==
    CASE name = "empty" -> GEmpty
      [] name = "line" -> GLine
      [] name = "boxed" -> GBoxed
      [] name = "comp" -> GComp
      [] name = "big" -> GBig

RECURSIVE GlyphsNamed(_, _)
GlyphsNamed(names, k) ==
    IF k > Len(names) THEN <<>>
    ELSE <<GlyphNamed(names[k])>> \o GlyphsNamed(names, k + 1)

LocaNames == {"empty", "line", "boxed", "comp"}

\* every list of one to three small glyphs, and lists whose glyf table is
\* longer than 131070 bytes, the largest offset a short loca entry holds
LocaLists ==
    { <<a>> : a \in LocaNames }
    \cup { <<a, b>> : a \in LocaNames, b \in LocaNames }
    \cup { <<a, b, c>> : a \in LocaNames, b \in LocaNames, c \in LocaNames }
    \cup { <<"big", "big">>, <<"big", "empty", "big", "line">> }

LocaInit ==
    /\ FontIdle
    /\ WoffIdle
    /\ CallsIdle
    /\ vPc = "written"
    /\ vKind = "loca"
    /\ vValue \in [names : LocaLists, indexFormat : {0, 1}]
    /\ vBytes = <<>>
    /\ vReader = "none"
    /\ vResult = Null(0)

\* numberOfContours of the glyph record at a byte offset of the glyf table
ContoursAt(glyfData, offset) ==
    IF offset + 2 <= Len(glyfData) THEN getInt16(glyfData, offset) ELSE 0

\* reconstructGlyf on the transformed table of the named glyphs; then each
\* loca entry is read back and the glyph record it points at is looked up
ReconstructLoca ==
    /\ vPc = "written" /\ vKind = "loca"
    /\ \E glyphs \in {GlyphsNamed(vValue.names, 1)} :
       \E table \in {GenTransformedGlyf(glyphs, vValue.indexFormat)} :
       \E r \in {reconstructGlyf(table, 0, Len(table), Len(GenRawGlyf(glyphs, 4, 1)))} :
          vResult' = [ok |-> r.ok,
                      numGlyphs |-> r.numGlyphs,
                      indexFormat |-> r.indexFormat,
                      locaData |-> r.locaData,
                      glyfLength |-> Len(r.glyfData),
                      found |-> IF r.ok
                                THEN [g \in 1 .. r.numGlyphs |->
                                        ContoursAt(r.glyfData, LocaAt(r, g - 1))]
                                ELSE <<>>]
    /\ vReader' = "reconstructGlyf"
    /\ vPc' = "read"
    /\ UNCHANGED <<vKind, vValue, vBytes>>
    /\ UNCHANGED varsNotVarint

LocaNext == ReconstructLoca

SpecLoca == LocaInit /\ [][LocaNext]_vars

LocaDone == vPc = "read" /\ vKind = "loca"

\* numberOfContours of a named glyph
NamedContours(name) ==
    IF name = "empty" THEN 0 ELSE IF name = "comp" THEN -1 ELSE 1

(***************************************************************************)
(* C24: the loca table that reconstructGlyf writes, read back per          *)
(* indexFormat, holds the glyf byte offsets: it starts at 0, its entries   *)
(* are nondecreasing multiples of 4, every glyph that is not empty begins  *)
(* at its entry, and the last entry is the length of the glyf table; this  *)
(* for every reconstructed glyf size, sizes above 131070 bytes with        *)
(* indexFormat 0 included.                                                 *)
(***************************************************************************)
C24_LocaOffsets ==
    (LocaDone /\ vResult.ok) =>
        LET n == Len(vValue.names) IN
        /\ vResult.numGlyphs = n
        /\ Len(vResult.locaData) = (n + 1) * (IF vResult.indexFormat = 0 THEN 2 ELSE 4)
        /\ LocaAt(vResult, 0) = 0
        /\ LocaAt(vResult, n) = vResult.glyfLength
        /\ \A g \in 0 .. n - 1 :
            /\ LocaAt(vResult, g) % 4 = 0
            /\ LocaAt(vResult, g) <= LocaAt(vResult, g + 1)
            /\ vValue.names[g + 1] = "empty" => LocaAt(vResult, g + 1) = LocaAt(vResult, g)
            /\ vValue.names[g + 1] # "empty" =>
                /\ LocaAt(vResult, g) + 10 <= LocaAt(vResult, g + 1)
                /\ vResult.found[g + 1] = NamedContours(vValue.names[g + 1])

(***************************************************************************)
(* The composite-record scanners on their own.  A chain of component       *)
(* records is laid out from its flags words; the decoder scans it as a     *)
(* substream that ends before further bytes of the table, the encoder as   *)
(* the body of a glyph record of a glyf table.                             *)
(***************************************************************************)
\* the flags words without MORE_COMPONENTS: each size of arguments and of
\* matrix, two matrix flags at once, and WE_HAVE_INSTRUCTIONS
ChainShapes == {0, 1, 8, 64, 128, 72, 192, 129, 256, 265}

ChainFlags == ChainShapes \cup { f + 32 : f \in ChainShapes }

ChainLists ==
    { <<a>> : a \in ChainFlags }
    \cup { <<a, b>> : a \in ChainFlags, b \in ChainFlags }
    \cup { <<a, b, c>> : a \in {32, 33, 416}, b \in {32, 288, 40}, c \in {0, 8, 32, 256} }

\* bytes cut from the end of the chain
ChainCuts == {0, 1, 3}

\* the bytes that follow a flags word, by the layout of a component record
RecordTail(f) ==
    Zeros(2) \o Zeros(IF f % 2 = 1 THEN 4 ELSE 2)
    \o Zeros(IF (f \div 8) % 2 = 1 THEN 2
             ELSE IF (f \div 64) % 2 = 1 THEN 4
             ELSE IF (f \div 128) % 2 = 1 THEN 8 ELSE 0)

RECURSIVE ChainBytes(_, _)
ChainBytes(flags, k) ==
    IF k > Len(flags) THEN <<>>
    ELSE <<flags[k] \div 256, flags[k] % 256>> \o RecordTail(flags[k])
         \o ChainBytes(flags, k + 1)

\* the bytes after the substream: a record that would end any chain
ChainAfter == <<0, 0, 0, 0, 0, 0, 0, 0>>

ChainInit ==
    /\ FontIdle
    /\ WoffIdle
    /\ CallsIdle
    /\ vPc = "written"
    /\ vKind = "composite"
    /\ vValue \in [flags : ChainLists, cut : ChainCuts]
    /\ vBytes = SubSeq(ChainBytes(vValue.flags, 1), 1,
                       Len(ChainBytes(vValue.flags, 1)) - vValue.cut)
    /\ vReader = "none"
    /\ vResult = Null(0)

\* readCompositeGlyph on the substream vBytes, which lies at the start of a
\* longer array
ReadComposite ==
    /\ vPc = "written" /\ vKind = "composite"
    /\ vResult' = readCompositeGlyph(vBytes \o ChainAfter, 0, Len(vBytes))
    /\ vReader' = "readCompositeGlyph"
    /\ vPc' = "read"
    /\ UNCHANGED <<vKind, vValue, vBytes>>
    /\ UNCHANGED varsNotVarint

\* parseCompositeGlyph on a glyf table whose one record has vBytes after its
\* ten header bytes, and no instructions
ParseComposite ==
    /\ vPc = "written" /\ vKind = "composite"
    /\ \E r \in {parseCompositeGlyph(Int16BE(-1) \o Zeros(8) \o vBytes \o Zeros(2),
                                     0, 0, 0, 0, 0)} :
          vResult' = [ok |-> r.ok,
                      pos |-> IF r.ok THEN Len(r.compositeData) ELSE 0,
                      hi |-> IF r.ok THEN r.haveInstructions ELSE FALSE]
    /\ vReader' = "parseCompositeGlyph"
    /\ vPc' = "read"
    /\ UNCHANGED <<vKind, vValue, vBytes>>
    /\ UNCHANGED varsNotVarint

ChainNext == ReadComposite \/ ParseComposite

SpecComposite == ChainInit /\ [][ChainNext]_vars

\* the first record of a chain whose flags lack MORE_COMPONENTS; 0 if none
ChainEndIndex(flags) ==
    IF \E k \in 1 .. Len(flags) : (flags[k] \div 32) % 2 = 0
    THEN CHOOSE k \in 1 .. Len(flags) :
            /\ (flags[k] \div 32) % 2 = 0
            /\ \A j \in 1 .. k - 1 : (flags[j] \div 32) % 2 = 1
    ELSE 0

\* the bytes of the records up to the first one that ends the chain
ChainLength(flags) == Len(ChainBytes(SubSeq(flags, 1, ChainEndIndex(flags)), 1))

\* the chain ends inside the substream
ChainComplete ==
    /\ ChainEndIndex(vValue.flags) > 0
    /\ ChainLength(vValue.flags) <= Len(vBytes)

ChainInstructions ==
    \E k \in 1 .. ChainEndIndex(vValue.flags) : (vValue.flags[k] \div 256) % 2 = 1

ChainDone == vPc = "read" /\ vKind = "composite"

(***************************************************************************)
(* C22: the composite-record scanner reads a flags word and skips the      *)
(* glyph index, 4 or 2 bytes of arguments and 2, 4 or 8 bytes of matrix;   *)
(* it ends exactly at the first record without MORE_COMPONENTS; it always  *)
(* ends, at that record or with a failure when the records overrun the     *)
(* substream, and never moves past the end of the substream;               *)
(* haveInstructions is true iff a visited record had WE_HAVE_INSTRUCTIONS; *)
(* parseCompositeGlyph of the encoder consumes the same number of bytes    *)
(* for the same chain.                                                     *)
(***************************************************************************)
C22_CompositeScan ==
    ChainDone =>
        /\ vReader = "readCompositeGlyph" =>
            /\ vResult.ok <=> ChainComplete
            /\ vResult.pos <= Len(vBytes)
            /\ vResult.ok =>
                /\ vResult.pos = ChainLength(vValue.flags)
                /\ vResult.hi <=> ChainInstructions
        /\ (vReader = "parseCompositeGlyph" /\ ChainComplete) =>
            /\ vResult.ok
            /\ vResult.pos = ChainLength(vValue.flags)
            /\ vResult.hi <=> ChainInstructions

C22_Witness ==
    /\ ChainDone
    /\ vReader = "readCompositeGlyph"
    /\ vValue.flags = <<416, 288, 0>>
    /\ vValue.cut = 0
    /\ vResult.ok /\ vResult.pos = 26 /\ vResult.hi

(***************************************************************************)
(* C23: woff2Decode fails whenever the flag byte of a transformed hmtx     *)
(* table has any of the bits 2 to 7 set, and returns no file with an hmtx  *)
(* table for such input.                                                   *)
(***************************************************************************)
C23_HmtxReserved ==
    (FirstDecodeDone /\ design.damage.kind = "hmtxFlags") =>
        pc = "failed" /\ sfnt = <<>>

(***************************************************************************)
(* The flags and coordinates of one simple glyph: the points are given as  *)
(* runs of equal points, laid out as WOFF2 triplets; the decoder's         *)
(* encodeTripletsToScratch writes the TrueType flags and coordinates, the  *)
(* glyph record is put together as reconstructGlyf does, and the encoder's *)
(* parseSimpleGlyph reads it.                                              *)
(***************************************************************************)
\* points <<onCurve, dx, dy>>: two with the same TrueType flag byte, long
\* and short deltas of both signs, and the ends of the int16 range
RunPoints ==
    { <<1, 0, 5>>, <<1, 0, 7>>, <<0, 0, -300>>, <<1, -255, 255>>, <<0, 256, 0>>,
      <<1, 32767, -32768>> }

RunSegments(lengths, points) == [n : lengths, pt : points]

\* one run or two: short runs of every point, and runs around the 256 flags
\* that one flag byte and its count hold, alone, before or after a short run
\* with the same flag byte or with another
RunLists ==
    LET short == RunSegments({1, 2, 3}, RunPoints)
        long == RunSegments({256, 257}, {<<1, 0, 5>>, <<0, 256, 0>>})
        near == RunSegments({1, 2}, {<<1, 0, 7>>, <<0, 256, 0>>})
    IN  { <<a>> : a \in short \cup RunSegments({256, 257}, RunPoints) }
        \cup { <<a, b>> : a \in short, b \in short }
        \cup { <<a, b>> : a \in long, b \in near }
        \cup { <<a, b>> : a \in near, b \in long }

\* n times the bytes b
Repeated(n, b) == [i \in 1 .. n * Len(b) |-> b[((i - 1) % Len(b)) + 1]]

\* the flag stream and the glyph stream of the points of a run
RunFlagStream(seg) == Repeated(seg.n, <<GenTriplet(seg.pt)[1]>>)

RunGlyphStream(seg) == Repeated(seg.n, GenTriplet(seg.pt)[2])

RunPointCount(segments) ==
    IF Len(segments) = 1 THEN segments[1].n ELSE segments[1].n + segments[2].n

\* vResult holds the locals of encodeTripletsToScratch (a), the number of
\* points it has done (i), and later the glyph parseSimpleGlyph returns
RunInit ==
    /\ FontIdle
    /\ WoffIdle
    /\ CallsIdle
    /\ vPc = "written"
    /\ vKind = "flags"
    /\ vValue \in [segments : RunLists, overlap : BOOLEAN]
    /\ \E a \in {vValue.segments[1]} :
       \E b \in {vValue.segments[Len(vValue.segments)]} :
          vBytes = IF Len(vValue.segments) = 1
                   THEN RunFlagStream(a) \o RunGlyphStream(a)
                   ELSE RunFlagStream(a) \o RunFlagStream(b)
                        \o RunGlyphStream(a) \o RunGlyphStream(b)
    /\ vReader = "none"
    /\ vResult = [i |-> 0, parsed |-> GlyphNull,
                  a |-> encodeTripletsToScratch(vBytes, 0, 0, 0, 0, 0, FALSE)]

\* one pass of the point loop of encodeTripletsToScratch; the flag stream
\* is the first n bytes of vBytes, the glyph stream the rest
TripletPoint ==
    /\ vPc = "written" /\ vKind = "flags"
    /\ vResult.i < RunPointCount(vValue.segments)
    /\ \E n \in {RunPointCount(vValue.segments)} :
       \E a \in {TripletLoop(vBytes, n, Len(vBytes), vResult.i + 1, vValue.overlap,
                             vResult.i,
                             IF vResult.i = 0
                             THEN [vResult.a EXCEPT !.glyphPos = n]
                             ELSE vResult.a)} :
          /\ vResult' = [vResult EXCEPT !.a = a, !.i = @ + 1]
          /\ vPc' = IF a.ok THEN "written" ELSE "failed"
    /\ vReader' = "encodeTripletsToScratch"
    /\ UNCHANGED <<vKind, vValue, vBytes>>
    /\ UNCHANGED varsNotVarint

\* the end of encodeTripletsToScratch: a pending repeat count is written
TripletsDone ==
    /\ vPc = "written" /\ vKind = "flags"
    /\ vResult.i = RunPointCount(vValue.segments)
    /\ vResult' = [vResult EXCEPT !.a.flagsOut =
                        IF vResult.a.repeatCount > 0
                        THEN Append(@, vResult.a.repeatCount) ELSE @]
    /\ vPc' = "scratch"
    /\ UNCHANGED <<vKind, vValue, vBytes, vReader>>
    /\ UNCHANGED varsNotVarint

\* the glyph record of one contour without instructions, as reconstructGlyf
\* lays it out
RunGlyph ==
    Int16BE(1) \o Zeros(8) \o Int16BE(RunPointCount(vValue.segments) - 1)
    \o Int16BE(0) \o vResult.a.flagsOut \o vResult.a.xOut \o vResult.a.yOut

\* the points a glyph may have for parseSimpleGlyph to be run on it whole
MaxParsePoints == 6

\* parseSimpleGlyph on the glyph record
ParseScratch ==
    /\ vPc = "scratch" /\ vKind = "flags"
    /\ RunPointCount(vValue.segments) <= MaxParsePoints
    /\ vResult' = [vResult EXCEPT !.parsed = parseSimpleGlyph(RunGlyph, 0, 1, 0, 0, 0, 0)]
    /\ vReader' = "parseSimpleGlyph"
    /\ vPc' = "read"
    /\ UNCHANGED <<vKind, vValue, vBytes>>
    /\ UNCHANGED varsNotVarint

\* the flag loop of parseSimpleGlyph on the glyph record
ParseScratchFlags ==
    /\ vPc = "scratch" /\ vKind = "flags"
    /\ vResult' = [vResult EXCEPT !.parsed =
                      [ok |-> TRUE, kind |-> "flags",
                       flags |-> ParseFlags(RunGlyph, 14, <<>>,
                                            RunPointCount(vValue.segments)).flags]]
    /\ vReader' = "parseSimpleGlyph"
    /\ vPc' = "flags"
    /\ UNCHANGED <<vKind, vValue, vBytes>>
    /\ UNCHANGED varsNotVarint

RunNext == TripletPoint \/ TripletsDone \/ ParseScratch \/ ParseScratchFlags

SpecFlags == RunInit /\ [][RunNext]_vars

\* the run-length form read byte by byte: the flags it stands for, or
\* failed when a count is 0 or missing
RECURSIVE RleExpand(_, _, _)
RleExpand(bytes, k, acc) ==
    IF k > Len(bytes) THEN [ok |-> TRUE, flags |-> acc]
    ELSE IF (bytes[k] \div 8) % 2 = 0 THEN RleExpand(bytes, k + 1, Append(acc, bytes[k]))
    ELSE IF k + 1 > Len(bytes) \/ bytes[k + 1] < 1 \/ bytes[k + 1] > 255
    THEN [ok |-> FALSE, flags |-> acc]
    ELSE RleExpand(bytes, k + 2,
                   acc \o [j \in 1 .. bytes[k + 1] + 1 |-> bytes[k] - 8])

\* the point the runs put at index i
RunPointAt(segments, i) ==
    IF i <= segments[1].n THEN segments[1].pt ELSE segments[2].pt

\* a coordinate difference as the int16 it is stored in
Delta16(coords, i) ==
    LET d == (coords[i] - (IF i = 1 THEN 0 ELSE coords[i - 1])) % 65536
    IN  IF d >= 32768 THEN d - 65536 ELSE d

(***************************************************************************)
(* C27: the run-length flags that encodeTripletsToScratch writes expand to *)
(* exactly n flags, every count byte lies in 1..255, a run of more than    *)
(* 256 equal flags goes on in a new run, and parseSimpleGlyph recovers the *)
(* on-curve bits and the deltas of the points, for deltas over the whole   *)
(* range -32768..32767.                                                    *)
(***************************************************************************)
C27_FlagRuns ==
    /\ (vKind = "flags" /\ vPc = "written") => vResult.a.ok
    /\ (vKind = "flags" /\ vPc \in {"scratch", "read", "flags"}) =>
        LET n == RunPointCount(vValue.segments)
            x == RleExpand(vResult.a.flagsOut, 1, <<>>)
        IN  /\ x.ok
            /\ Len(x.flags) = n
            /\ \A i \in 1 .. n :
                    x.flags[i] % 2 = RunPointAt(vValue.segments, i)[1]
            /\ (Len(vValue.segments) = 1 /\ n = 257 /\ ~vValue.overlap) =>
                    /\ Len(vResult.a.flagsOut) = 3
                    /\ vResult.a.flagsOut[2] = 255
                    /\ vResult.a.flagsOut[3] + 8 = vResult.a.flagsOut[1]
    /\ (vKind = "flags" /\ vPc = "flags") =>
        LET n == RunPointCount(vValue.segments)
            g == vResult.parsed
        IN  /\ Len(g.flags) = n
            /\ \A i \in 1 .. n : g.flags[i] % 2 = RunPointAt(vValue.segments, i)[1]
    /\ (vKind = "flags" /\ vPc = "read") =>
        LET n == RunPointCount(vValue.segments)
            g == vResult.parsed
        IN  /\ g.ok /\ g.kind = "simple"
            /\ Len(g.flags) = n
            /\ \A i \in 1 .. n :
                LET pt == RunPointAt(vValue.segments, i) IN
                /\ g.flags[i] % 2 = pt[1]
                /\ Delta16(g.xCoordinates, i) = pt[2]
                /\ Delta16(g.yCoordinates, i) = pt[3]

C27_Witness ==
    /\ vKind = "flags" /\ vPc = "flags"
    /\ vValue.segments = <<[n |-> 257, pt |-> <<1, 0, 5>>], [n |-> 2, pt |-> <<1, 0, 7>>]>>
    /\ ~vValue.overlap
    /\ vResult.a.flagsOut = <<61, 255, 61, 2>>
    /\ Len(vResult.parsed.flags) = 259

(***************************************************************************)
(* The two glyph loops side by side: transformGlyf writes the seven        *)
(* substreams glyph by glyph, reconstructGlyf reads them glyph by glyph.   *)
(* The state keeps the streams written and the read positions after the   *)
(* same number of glyphs; one step is one pass of both loops.              *)
(***************************************************************************)
\* a glyph record of 12 bytes whose numberOfContours is 0: the header with
\* an all-zero bounding box, then instructionLength 0
HollowRecord == Int16BE(0) \o Zeros(8) \o Int16BE(0)

SyncRecord(name) ==
    IF name = "hollow" THEN HollowRecord
    ELSE IF name = "diag" THEN GenRawGlyph(GDiag)
    ELSE PadTo(GenRawGlyph(GlyphNamed(name)), 4)

\* the glyf table of the named glyphs, every record padded to 4 bytes
RECURSIVE SyncGlyf(_, _)
SyncGlyf(names, k) ==
    IF k > Len(names) THEN <<>>
    ELSE PadTo(SyncRecord(names[k]), 4) \o SyncGlyf(names, k + 1)

\* the glyph offsets its loca table holds
SyncOffsets(names) ==
    [k \in 1 .. Len(names) + 1 |-> Len(SyncGlyf(SubSeq(names, 1, k - 1), 1))]

SyncNames == {"empty", "line", "diag", "boxed", "comp", "hollow"}

SyncLists ==
    { <<a>> : a \in SyncNames }
    \cup { <<a, b>> : a \in SyncNames, b \in SyncNames }
    \cup { <<a, b, c>> : a \in SyncNames, b \in SyncNames, c \in SyncNames }

\* the transformed table transformGlyf makes of the named glyphs
SyncTable(names, indexFormat) ==
    LET raw == SyncGlyf(names, 1) IN
    transformGlyf(raw, 0, Len(raw), Len(names), indexFormat, SyncOffsets(names)).data

\* where the seven substreams of a transformed table end
SyncEnds(table) ==
    LET E(k) == StreamEnd(table, 0, Len(table), k) IN
    [nContour |-> E(1), nPoints |-> E(2), flag |-> E(3), glyph |-> E(4),
     composite |-> E(5), bbox |-> E(6), instruction |-> E(7)]

\* the length of the bbox bitmap for numGlyphs glyphs
BboxBitmapLength(numGlyphs) == ((numGlyphs + 31) \div 32) * 4

SyncInit ==
    /\ FontIdle
    /\ WoffIdle
    /\ CallsIdle
    /\ vPc = "written"
    /\ vKind = "sync"
    /\ vValue \in [names : SyncLists, indexFormat : {0, 1}]
    /\ vBytes = SyncTable(vValue.names, vValue.indexFormat)
    /\ vReader = "none"
    /\ \E n \in {Len(vValue.names)} :
       \E e \in {SyncEnds(vBytes)} :
          vResult = [g |-> 0,
                     enc |-> NewStreams(n),
                     dec |-> [ok |-> TRUE, nContourPos |-> 36,
                              nPointsPos |-> e.nContour, flagPos |-> e.nPoints,
                              glyphPos |-> e.flag, compositePos |-> e.glyph,
                              bboxPos |-> e.composite + BboxBitmapLength(n),
                              instructionPos |-> e.bbox,
                              out |-> Zeros(2 * Len(SyncGlyf(vValue.names, 1))),
                              glyfOffset |-> 0, locaValues |-> <<>>,
                              xMins |-> Zeros(n)]]

\* one pass of the glyph loop of transformGlyf on the glyf table and one
\* pass of the glyph loop of reconstructGlyf on the transformed table
SyncGlyph ==
    /\ vPc = "written" /\ vKind = "sync"
    /\ vResult.g < Len(vValue.names)
    /\ vResult.dec.ok
    /\ \E g \in {vResult.g} :
       \E e \in {SyncEnds(vBytes)} :
       \E t \in {TransformGlyphs(SyncGlyf(vValue.names, 1), 0,
                                 SyncOffsets(vValue.names), g, g + 1, vResult.enc)} :
          /\ t.ok
          /\ vResult' =
                [g |-> g + 1,
                 enc |-> t.st,
                 dec |-> ReconstructGlyphs(vBytes, e,
                            SubArray(vBytes, e.composite,
                                     e.composite + BboxBitmapLength(Len(vValue.names))),
                            <<>>, g, g + 1, vResult.dec)]
    /\ vPc' = IF vResult.g + 1 = Len(vValue.names) THEN "read" ELSE "written"
    /\ vReader' = "reconstructGlyf"
    /\ UNCHANGED <<vKind, vValue, vBytes>>
    /\ UNCHANGED varsNotVarint

SyncNext == SyncGlyph

SpecSync == SyncInit /\ [][SyncNext]_vars

\* the bytes read so far from each substream
SyncConsumed(table, numGlyphs, dec) ==
    LET e == SyncEnds(table) IN
    [nContour |-> dec.nContourPos - 36,
     nPoints |-> dec.nPointsPos - e.nContour,
     flag |-> dec.flagPos - e.nPoints,
     glyph |-> dec.glyphPos - e.flag,
     composite |-> dec.compositePos - e.glyph,
     bbox |-> dec.bboxPos - (e.composite + BboxBitmapLength(numGlyphs)),
     instruction |-> dec.instructionPos - e.bbox]

\* the bytes written so far into each substream
SyncEmitted(enc) ==
    [nContour |-> Len(getBytes(enc.nContour)),
     nPoints |-> Len(getBytes(enc.nPoints)),
     flag |-> Len(getBytes(enc.flag)),
     glyph |-> Len(getBytes(enc.glyph)),
     composite |-> Len(getBytes(enc.composite)),
     bbox |-> Len(getBytes(enc.bbox)),
     instruction |-> Len(getBytes(enc.instruction))]

(***************************************************************************)
(* C28: after every glyph g the decoder has read from each of the          *)
(* nContour, nPoints, flag, glyph, composite, bbox and instruction         *)
(* substreams as many bytes as transformGlyf wrote into it for the glyphs  *)
(* 0..g, whatever the kinds of the glyphs: empty, simple, simple with an   *)
(* explicit bbox, composite with instructions, and a record of nonzero     *)
(* length whose numberOfContours is 0.                                     *)
(***************************************************************************)
C28_SubstreamSync ==
    (vKind = "sync" /\ vResult.g > 0 /\ vResult.dec.ok) =>
        SyncConsumed(vBytes, Len(vValue.names), vResult.dec) = SyncEmitted(vResult.enc)

\* the same without a record whose numberOfContours is 0 among the glyphs
\* passed so far
C28_SyncWithoutHollow ==
    (vKind = "sync" /\ vResult.g > 0
        /\ \A k \in 1 .. vResult.g : vValue.names[k] # "hollow") =>
        /\ vResult.dec.ok
        /\ SyncConsumed(vBytes, Len(vValue.names), vResult.dec) = SyncEmitted(vResult.enc)

(***************************************************************************)
(* The directory and the payload of a file woff2Encode has made, as the    *)
(* decoder's readHeader slices it.                                         *)
(***************************************************************************)
\* the bytes of the table tag of an SFNT file
SfntTableBytes(f, tag) ==
    SubSeq(f, SfntOffset(f, tag) + 1, SfntOffset(f, tag) + SfntLength(f, tag))

\* the head table with bit 11 of its flags set
HeadBit11(head) ==
    LET flags == head[17] * 256 + head[18] IN
    SubSeq(head, 1, 16)
    \o <<BitOr(flags, 2048) \div 256, BitOr(flags, 2048) % 256>>
    \o SubSeq(head, 19, Len(head))

\* slice is what woff2Encode is to write for the directory entry t of the
\* input f made from the design d: one whole transformed glyf table (the
\* header of the glyphs, streams that end where the slice ends, and
\* readable), nothing for a transformed loca, the flag byte and the advance
\* widths at the start of a transformed hmtx, the table itself otherwise
SliceIsTable(f, d, t, slice) ==
    IF HasBit(t.flags, WOFF2_FLAGS_TRANSFORM)
    THEN CASE t.tag = TAG_GLYF ->
                /\ Len(slice) >= 36
                /\ getUint16(slice, 4) = Len(d.glyphs)
                /\ getUint16(slice, 6) = d.indexFormat
                /\ Len(slice) = StreamEnd(slice, 0, Len(slice), 7)
                                + (IF getUint16(slice, 2) % 2 = 1
                                   THEN (Len(d.glyphs) + 7) \div 8 ELSE 0)
                /\ reconstructGlyf(slice, 0, Len(slice), t.origLength).ok
           [] t.tag = TAG_LOCA -> slice = <<>>
           [] t.tag = TAG_HMTX ->
                /\ Len(slice) >= 1 + 2 * DesignNumHMetrics(d)
                /\ slice[1] \in 1 .. 3
                /\ \A k \in 1 .. DesignNumHMetrics(d) :
                        SubSeq(slice, 2 * k, 2 * k + 1) = Int16BE(500 + k)
           [] OTHER -> FALSE
    ELSE IF t.tag = TAG_HEAD THEN slice = HeadBit11(SfntTableBytes(f, t.tag))
    ELSE slice = SfntTableBytes(f, t.tag)

\* woff2Decode has read the header of a file woff2Encode made of an input
EncodedHeaderRead == pc = "brotli" /\ source = "input" /\ origin = "sfnt"

(***************************************************************************)
(* C26: in a file woff2Encode has made the directory entries are in        *)
(* strictly ascending tag order, the uncompressed payload is the tables'   *)
(* payloads one after the other in that order, and the slice the decoder   *)
(* gives entry i (from the sum of the srcLength of the entries before it,  *)
(* srcLength being transformLength for an entry taken as transformed and   *)
(* origLength otherwise) is the payload written for table i.               *)
(***************************************************************************)
C26_DirectoryOrder ==
    /\ Encoded =>
            LET dir == WalkDirectory(woff2, 48, getUint16(woff2, 12)) IN
            /\ Len(dir) = getUint16(woff2, 12)
            /\ \A k \in 1 .. Len(dir) - 1 : dir[k].tag < dir[k + 1].tag
    /\ EncodedHeaderRead =>
            LET payload == decompress(CompressedData(woff2, hdr)).v
                Sliced(t) == SubSeq(payload, t.srcOffset + 1, t.srcOffset + t.srcLength)
            IN  /\ hdr.ok
                /\ Len(payload) = SumSrcLength(hdr.tables, Len(hdr.tables))
                /\ \A k \in 1 .. Len(hdr.tables) :
                    /\ hdr.tables[k].srcOffset = SumSrcLength(hdr.tables, k - 1)
                    /\ hdr.tables[k].srcLength =
                            IF HasBit(hdr.tables[k].flags, WOFF2_FLAGS_TRANSFORM)
                            THEN hdr.tables[k].transformLength
                            ELSE hdr.tables[k].origLength
                    /\ hdr.tables[k].srcOffset + hdr.tables[k].srcLength <= Len(payload)
                    /\ SliceIsTable(sfnt, design, hdr.tables[k], Sliced(hdr.tables[k]))

\* a TrueType font with a private table and a DSIG-free directory of seven
\* entries: glyf and hmtx transformed, loca empty between them
C26_Witness ==
    /\ EncodedHeaderRead /\ hdr.ok
    /\ design.outline = "glyf" /\ design.extra = "private"
    /\ design.glyphs = <<GBoxed, GEmpty, GComp>>
    /\ Len(hdr.tables) = 7
    /\ \E k \in 1 .. 6 :
        /\ hdr.tables[k].tag = TAG_LOCA /\ hdr.tables[k].srcLength = 0
        /\ hdr.tables[k].srcOffset > 0
        /\ hdr.tables[k + 1].srcOffset = hdr.tables[k].srcOffset
    /\ \E k \in 1 .. 7 :
        /\ hdr.tables[k].tag = TAG_HMTX
        /\ HasBit(hdr.tables[k].flags, WOFF2_FLAGS_TRANSFORM)

(***************************************************************************)
(* The size of the file woff2Decode returns.                               *)
(***************************************************************************)
\* the end of table i of an SFNT file, padded to four bytes
SfntTableEnd(f, i) ==
    getUint32(f, 12 + 16 * (i - 1) + 8) + pad4(getUint32(f, 12 + 16 * (i - 1) + 12))

\* the end of the table that lies last in the file
SfntLastEnd(f) ==
    LET ends == { SfntTableEnd(f, i) : i \in 1 .. SfntNumTables(f) } IN
    CHOOSE e \in ends : \A x \in ends : x <= e

\* the size woff2Decode allocates for a file with the header h: the offset
\* of the first table and the padded origLength of every directory entry
OutputSize(h) ==
    SFNT_HEADER_SIZE + SFNT_ENTRY_SIZE * h.numTables + PaddedSize(h.tables, Len(h.tables))

\* woff2Decode has returned or thrown on a file made by woff2Encode
EncodedDecoded ==
    \/ RoundTripped
    \/ RoundTripFailed /\ error # "encode"

(***************************************************************************)
(* C29: the output buffer of woff2Decode, sized from the padded origLength *)
(* of the directory entries, holds every table written: no write lands     *)
(* past its end (the decode of a file made by woff2Encode does not fail),  *)
(* and the length returned is the end of the last table written, also when *)
(* the reconstructed glyf, loca or hmtx is not origLength bytes long, as   *)
(* for a font whose glyphs are 2-byte aligned.                             *)
(***************************************************************************)
C29_OutputSize ==
    EncodedDecoded =>
        /\ pc = "sfnt"
        /\ Len(sfnt) = OutputSize(hdr)
        /\ \A i \in 1 .. SfntNumTables(sfnt) : SfntTableEnd(sfnt, i) <= Len(sfnt)
        /\ Len(sfnt) = SfntLastEnd(sfnt)

(***************************************************************************)
(* Collections.  A WOFF2 file of flavor 'ttcf' with two TrueType fonts is  *)
(* described by [a, b, share, version]: the designs of the fonts, the tags *)
(* of the tables font b takes from font a (loca goes with glyf), and the   *)
(* version of the collection header, 1 or 2.  The directory holds the      *)
(* tables of a, then the tables of b that are its own.                     *)
(***************************************************************************)
TtcFontDesigns ==
    { d \in Woff2Designs :
        /\ d.outline = "glyf" /\ d.indexFormat = 0 /\ d.lsbMode = "xmin"
        /\ d.headFlags = 5 /\ d.extra = "none" }

\* the tags font b of the collection t takes from font a
TtcShared(t) == t.share \cup (IF TAG_GLYF \in t.share THEN {TAG_LOCA} ELSE {})

\* the entry of a tag among the entries es, and its place
TtcIndexIn(es, tag) == CHOOSE k \in 1 .. Len(es) : es[k].tag = tag

\* only a table that is the same in both fonts is shared; a font with a
\* transformed hmtx of its own has the glyphs of the glyf table it uses
TtcDesigns ==
    { t \in [a : TtcFontDesigns, b : TtcFontDesigns,
             share : SUBSET {TAG_HEAD, TAG_HHEA, TAG_MAXP, TAG_HMTX, TAG_GLYF},
             version : {1, 2}] :
        \E ea \in {GenWoff2Entries(t.a)} :
        \E eb \in {GenWoff2Entries(t.b)} :
            /\ \A tag \in TtcShared(t) :
                    eb[TtcIndexIn(eb, tag)] = ea[TtcIndexIn(ea, tag)]
            /\ TAG_HMTX \in t.share => GenHmtx(t.b, 1) = GenHmtx(t.a, 1) }

\* the table indices of a font as 255UInt16 values below 253
GenTtcFont(indices) == <<Len(indices)>> \o U32BE(SFNT_TTF) \o indices

GenTtcWoff2(t) ==
    LET File(ea, eb, own) ==
            LET entries == ea \o own
                directory == GenWoff2Directory(entries, 1)
                indicesA == SubSeq([k \in 1 .. Len(ea) |-> k - 1], 1, Len(ea))
                indicesB ==
                    SubSeq([k \in 1 .. Len(eb) |->
                              IF eb[k].tag \in TtcShared(t)
                              THEN TtcIndexIn(ea, eb[k].tag) - 1
                              ELSE Len(ea) + TtcIndexIn(own, eb[k].tag) - 1],
                           1, Len(eb))
                fonts == U32BE(t.version * 65536) \o <<2>>
                         \o GenTtcFont(indicesA) \o GenTtcFont(indicesB)
                compressed == brotliEncode(GenWoff2Stream(entries, 1))
                length == 48 + Len(directory) + Len(fonts) + Len(compressed)
            IN  <<119, 79, 70, 50>> \o U32BE(TTC_FLAVOR) \o U32BE(length)
                \o Int16BE(Len(entries)) \o Zeros(2)
                \o U32BE(20 + (IF t.version = 2 THEN 12 ELSE 0)
                         + 24 + 16 * (Len(ea) + Len(eb))
                         + GenPaddedTotal(entries, 1))
                \o U32BE(Len(compressed)) \o Int16BE(1) \o Zeros(2) \o Zeros(20)
                \o directory \o fonts \o compressed
        Own(ea, eb) ==
            File(ea, eb, SelectSeq(eb, LAMBDA e : e.tag \notin TtcShared(t)))
    IN  Own(GenWoff2Entries(t.a), GenWoff2Entries(t.b))

TtcInit ==
    /\ VarintIdle
    /\ WoffIdle
    /\ CallsIdle
    /\ hdr = HeaderNull /\ brotliCalls = 0 /\ error = "none"
    /\ prev = [kind |-> "none", v |-> <<>>]
    /\ origin = "ttc"
    /\ design \in TtcDesigns
    /\ woff2 = GenTtcWoff2(design)
    /\ pc = "woff2"
    /\ sfnt = <<>> /\ source = "none"

TtcNext ==
    \/ DecodeBegin
    \/ DecodeResume

SpecTtc == TtcInit /\ [][TtcNext]_vars

(***************************************************************************)
(* What the claims read from a collection file: numFonts at 8, the offsets *)
(* of the fonts from 12 on; a font is read at its offset like an SFNT      *)
(* file, the offsets of its tables counting from the start of the file.    *)
(***************************************************************************)
TtcNumFonts(f) == getUint32(f, 8)
TtcFontAt(f, i) == getUint32(f, 12 + 4 * (i - 1))
TtcNumTables(f, i) == getUint16(f, TtcFontAt(f, i) + 4)
TtcEntryAt(f, i, k) == TtcFontAt(f, i) + 12 + 16 * (k - 1)
TtcEntryIndex(f, i, tag) ==
    CHOOSE k \in 1 .. TtcNumTables(f, i) : getUint32(f, TtcEntryAt(f, i, k)) = tag
TtcTableOffset(f, i, tag) == getUint32(f, TtcEntryAt(f, i, TtcEntryIndex(f, i, tag)) + 8)
TtcTableLength(f, i, tag) == getUint32(f, TtcEntryAt(f, i, TtcEntryIndex(f, i, tag)) + 12)
TtcTableBytes(f, i, tag) ==
    SubSeq(f, TtcTableOffset(f, i, tag) + 1,
           TtcTableOffset(f, i, tag) + TtcTableLength(f, i, tag))

\* woff2Decode has returned the collection of the design
TtcDecoded == origin = "ttc" /\ pc = "sfnt" /\ source = "decoded"

\* woff2Decode has returned or thrown on the collection of the design
TtcDone == origin = "ttc" /\ pc \in {"sfnt", "failed"}

\* f with the checkSumAdjustment of the head table of font i set to zero
TtcAdjustmentZeroed(f, i) ==
    LET at == TtcTableOffset(f, i, TAG_HEAD) + 8 IN
    SubSeq(f, 1, at) \o <<0, 0, 0, 0>> \o SubSeq(f, at + 5, Len(f))

\* the sum of the high (half = 0) or low (half = 1) halves of the words of
\* the tables of the entries 1..k of font i, each table padded to 4 bytes
RECURSIVE TtcTablesHalfSum(_, _, _, _)
TtcTablesHalfSum(f, i, k, half) ==
    IF k = 0 THEN 0
    ELSE HalfSum(f, getUint32(f, TtcEntryAt(f, i, k) + 8) \div 4,
                 pad4(getUint32(f, TtcEntryAt(f, i, k) + 12)) \div 4, half)
         + TtcTablesHalfSum(f, i, k - 1, half)

\* (0xB1B0AFBA - S) mod 2^32 as four bytes, S the sum of the words of the
\* offset table and the directory of font i and of the tables it references
TtcExpectedAdjustment(f, i) ==
    LET n == TtcNumTables(f, i)
        Halves(z, half) ==
            HalfSum(z, TtcFontAt(f, i) \div 4, 3 + 4 * n, half)
            + TtcTablesHalfSum(z, i, n, half)
        Value(lows, highs0) ==
            LET highs == highs0 + lows \div 65536
                lo == (44986 - lows) % 65536
                borrow == IF lows % 65536 > 44986 THEN 1 ELSE 0
                hi == (45488 - highs - borrow) % 65536
            IN  <<hi \div 256, hi % 256, lo \div 256, lo % 256>>
        Sum(z) == Value(Halves(z, 1), Halves(z, 0))
    IN  Sum(TtcAdjustmentZeroed(f, i))

\* head.checkSumAdjustment of font i
TtcAdjustment(f, i) ==
    SubSeq(f, TtcTableOffset(f, i, TAG_HEAD) + 9, TtcTableOffset(f, i, TAG_HEAD) + 12)

(***************************************************************************)
(* C25: in a decoded collection the head table of every font holds in      *)
(* checkSumAdjustment the value (0xB1B0AFBA - S) mod 2^32, S the sum mod   *)
(* 2^32 of the words of that font's offset table, of its directory entries *)
(* as they are in the file, and of the tables the font references, whether *)
(* or not a table, head included, is shared with the other font.           *)
(***************************************************************************)
C25_TtcChecksums ==
    TtcDecoded =>
        /\ TtcNumFonts(sfnt) = 2
        /\ \A i \in 1 .. 2 : TtcAdjustment(sfnt, i) = TtcExpectedAdjustment(sfnt, i)

\* the same for a second font that has a head table of its own and takes
\* glyf and loca from the first: each of its tables is counted once
C25_OwnHeadReusedGlyf ==
    (TtcDecoded /\ TAG_HEAD \notin design.share /\ TAG_GLYF \in design.share) =>
        TtcAdjustment(sfnt, 2) = TtcExpectedAdjustment(sfnt, 2)

\* the font that uses the glyf table of the other and has a transformed
\* hmtx table of its own
TtcSharedGlyfOwnHmtx ==
    /\ origin = "ttc"
    /\ TAG_GLYF \in design.share /\ TAG_HMTX \notin design.share
    /\ design.b.hmtxForm = "transformed"

(***************************************************************************)
(* C30: when a font of a collection uses a glyf table written for an       *)
(* earlier font and has a transformed hmtx of its own, its hmtx is rebuilt *)
(* with the numGlyphs and the xMins of that glyf table: the decode returns *)
(* and the hmtx of the font has numHMetrics * 4 + (numGlyphs -             *)
(* numHMetrics) * 2 bytes, with the advance widths of the font and every   *)
(* left side bearing equal to the xMin of its glyph.                       *)
(***************************************************************************)
C30_SharedGlyfHmtx ==
    (TtcDone /\ TtcSharedGlyfOwnHmtx) =>
        /\ pc = "sfnt"
        /\ TtcTableLength(sfnt, 2, TAG_HMTX)
                = DesignNumHMetrics(design.b) * 4
                  + (Len(design.b.glyphs) - DesignNumHMetrics(design.b)) * 2
        /\ TtcTableBytes(sfnt, 2, TAG_HMTX) = GenHmtx(design.b, 1)

\* the same for the first font and for a second font with a glyf table of
\* its own
C30_OwnGlyfHmtx ==
    TtcDone =>
        /\ pc = "sfnt"
        /\ TtcTableBytes(sfnt, 1, TAG_HMTX) = GenHmtx(design.a, 1)
        /\ TAG_GLYF \notin design.share =>
                TtcTableBytes(sfnt, 2, TAG_HMTX) = GenHmtx(design.b, 1)

=============================================================================
